---- MODULE Spec2Model ----
(***************************************************************************)
(* Model of the metrics aggregation engine of node-red-contrib-metrics-    *)
(* collector: NodeRedHooks (batcher, timing table, host event handlers),   *)
(* MetricsCollector (counters, rate tick) and NodeRedFlowMetrics (init and *)
(* stop).  All callbacks run to completion on one thread, so each handler  *)
(* is one action.  The objects are records; an operation of the code is an *)
(* operator from the world before the call to the world after it.          *)
(***************************************************************************)
EXTENDS Integers, Sequences, FiniteSets, TLC

(* ---------------- bounds of the model ---------------- *)

\* options.batchSize (default 100), scaled down
BatchSize == 2
\* options.maxTimingEntries (default 1000), scaled down
MaxTimingEntries == 2
\* number of send/receive notifications the host delivers in one run
MaxEvents == 3
\* number of init(RED) calls that register hooks with the host in one run
MaxInits == 1
\* number of init(RED) calls that wait for the server at the same time
MaxPendingInits == 2
\* number of times the clock is advanced in one run
MaxAdvances == 2
\* largest options.batchSize an engine is constructed with
MaxBatchSize == 3
\* number of flushes in a run of an engine whose flush timeouts never end
MaxFlushes == 4
\* number of init(RED) calls that register hooks, in runs with init after stop
MaxReinits == 2
\* number of flow-metrics nodes the host creates in one run
MaxNodes == 3
\* number of NodeRedFlowMetrics objects the node module constructs in one run
MaxInstances == 2
\* number of completion notifications the host delivers in one run
MaxCompletes == 2
\* number of null payloads and error events the host delivers, and of direct
\* calls of the collector, in one run
MaxNulls == 2

(* ---------------- program constants ---------------- *)

\* const maxAge = 60000 in cleanupTimingEntries
maxAge == 60000
\* the divisor of calculateMessagesPerSecond ("5 second intervals")
RateDivisor == 5
\* the period MetricsCollector.start() passes to setInterval
TickPeriod == 5000
\* options.collectInterval when the caller gives none
DefaultCollectInterval == 5000

(* ---------------- values ---------------- *)

\* JavaScript undefined / null (a falsy value that is no string of the host)
Undefined == "<undefined>"

Falsy(x) == x \in {Undefined, ""}

\* mutant: the default is not applied
OrElse_NoDefault(a, b) == a

\* a || b
OrElse(a, b) == IF Falsy(a) THEN b ELSE a

\* node descriptors the host puts into events (source, destination, node)
Descriptors ==
    { [id |-> "n1", type |-> "inject", z |-> "f1"],
      [id |-> "n2", type |-> "debug", z |-> "f1"],
      [id |-> Undefined, type |-> Undefined, z |-> Undefined] }

\* two of them: a full descriptor and one without fields
TwoNodes ==
    { [id |-> "n1", type |-> "inject", z |-> "f1"],
      [id |-> Undefined, type |-> Undefined, z |-> Undefined] }

\* a node and an instance of a subflow, whose type the host names
\* `subflow:<id of the subflow>`
RateNodes ==
    { [id |-> "n1", type |-> "inject", z |-> "f1"],
      [id |-> "n2", type |-> "subflow:s1", z |-> "f1"] }

\* msg._msgid values; Undefined when the host supplies none
MsgIds == {"m1", "m2", Undefined}

\* results of generateMessageId(): `msg_${Date.now()}_${random}`
GeneratedIds == {"msg_1_a", "msg_1_b"}

\* amounts by which Date.now() advances between two callbacks
ClockSteps == {1, 60000}

Range(s) == {s[i] : i \in 1..Len(s)}

Min(a, b) == IF a < b THEN a ELSE b

Max(a, b) == IF a > b THEN a ELSE b

(* ---------------- Map helpers ---------------- *)

\* map.get(key) || 0
GetOrZero(map, key) == IF key \in DOMAIN map THEN map[key] ELSE 0

\* map.set(key, value)
MapSet(map, key, value) ==
    [k \in (DOMAIN map) \cup {key} |-> IF k = key THEN value ELSE map[k]]

EmptyMap == [k \in {} |-> 0]

\* mutant: the key is joined the way the timing key is
CounterKey_Underscore(nodeId, nodeType, flowId) == nodeId \o "_" \o nodeType \o "_" \o flowId

\* `${nodeId}:${nodeType}:${flowId}`
CounterKey(nodeId, nodeType, flowId) == nodeId \o ":" \o nodeType \o ":" \o flowId

\* `${nodeId}_${messageId}`
TimingKey(nodeId, messageId) == nodeId \o "_" \o messageId

VARIABLES
    hooks,      \* the NodeRedHooks object
    collector,  \* the MetricsCollector object
    engine,     \* the NodeRedFlowMetrics object
    loop,       \* the event loop: scheduled timeouts and intervals, host hooks
    now,        \* Date.now()
    ghost       \* history: what was called, in which order

vars == <<hooks, collector, engine, loop, now, ghost>>

\* the world a callback starts in; the history of the step that starts has
\* no exception caught and no error recorded yet
World == [hooks |-> hooks, collector |-> collector, engine |-> engine,
          loop |-> loop,
          ghost |-> [ghost EXCEPT !.threw = 0, !.recorded = 0, !.raised = FALSE]]

\* the primed variables take the fields of the world w
Becomes(w) ==
    /\ hooks' = w.hooks
    /\ collector' = w.collector
    /\ engine' = w.engine
    /\ loop' = w.loop
    /\ ghost' = w.ghost

\* history: op was the last operation; sweptFrom (the table a sweep found) and
\* stoppedWith (the queue a stop found) are kept only right after that operation
Did(w, op) ==
    [w EXCEPT !.ghost.lastOp = op, !.ghost.sweptFrom = <<>>, !.ghost.stoppedWith = <<>>]

(* ---------------- MetricsCollector ---------------- *)

RecordIncomingMessage(w, nodeId, nodeType, flowId) ==
    LET key == CounterKey(nodeId, nodeType, flowId)
    IN [w EXCEPT
          !.collector.messagesIncomingTotal =
              MapSet(@, <<nodeId, nodeType, flowId>>,
                     GetOrZero(@, <<nodeId, nodeType, flowId>>) + 1),
          !.collector.incomingMessageCounters =
              MapSet(@, key, GetOrZero(@, key) + 1)]

\* mutant: the copied method still counts into the incoming map
RecordOutgoingMessage_WrongMap(w, nodeId, nodeType, flowId) ==
    LET key == CounterKey(nodeId, nodeType, flowId)
    IN [w EXCEPT
          !.collector.messagesOutgoingTotal =
              MapSet(@, <<nodeId, nodeType, flowId>>,
                     GetOrZero(@, <<nodeId, nodeType, flowId>>) + 1),
          !.collector.incomingMessageCounters =
              MapSet(@, key, GetOrZero(@, key) + 1)]

RecordOutgoingMessage(w, nodeId, nodeType, flowId) ==
    LET key == CounterKey(nodeId, nodeType, flowId)
    IN [w EXCEPT
          !.collector.messagesOutgoingTotal =
              MapSet(@, <<nodeId, nodeType, flowId>>,
                     GetOrZero(@, <<nodeId, nodeType, flowId>>) + 1),
          !.collector.outgoingMessageCounters =
              MapSet(@, key, GetOrZero(@, key) + 1)]

\* errorsTotal.inc({node_id, node_type, flow_id, error_type})
RecordError(w, nodeId, nodeType, flowId, errorType) ==
    [w EXCEPT !.collector.errorsTotal =
                 MapSet(@, <<nodeId, nodeType, flowId, errorType>>,
                        GetOrZero(@, <<nodeId, nodeType, flowId, errorType>>) + 1),
              !.ghost.recorded = @ + 1]

\* nodeExecutionTime.observe({node_id, node_type, flow_id}, duration): the
\* observations of a label set, in the order they were made
RecordNodeExecution(w, nodeId, nodeType, flowId, duration) ==
    [w EXCEPT !.collector.nodeExecutionTime =
                 MapSet(@, <<nodeId, nodeType, flowId>>,
                        Append(IF <<nodeId, nodeType, flowId>> \in DOMAIN @
                                 THEN @[<<nodeId, nodeType, flowId>>] ELSE <<>>,
                               duration))]

(* ---------------- event loop ---------------- *)

\* a handle setTimeout can return: no scheduled timeout has it, and it is not
\* the handle batchTimer still holds
FreshTimer(w) ==
    CHOOSE t \in 1..(MaxEvents + 1) :
        t \notin Range(w.loop.timeouts) /\ t # w.hooks.batchTimer

\* this.batchTimer = setTimeout(() => this.processBatch(), flushInterval)
ArmBatchTimer(w) ==
    LET t == FreshTimer(w)
    IN [w EXCEPT !.hooks.batchTimer = t,
                 !.loop.timeouts = Append(@, t)]

\* clearTimeout(handle): the timeout, if still scheduled, is removed
ClearTimeout(w, handle) ==
    [w EXCEPT !.loop.timeouts = SelectSeq(@, LAMBDA t : t # handle)]

\* setInterval for one of the periodic callbacks
SetInterval(w, kind) ==
    [w EXCEPT !.loop.intervals[kind] = @ + 1]

\* clearInterval(handle) of the most recent interval of that kind
ClearInterval(w, kind) ==
    [w EXCEPT !.loop.intervals[kind] = Max(0, @ - 1)]

(* ---------------- NodeRedHooks: batching ---------------- *)

\* An option value is [isNumber, n]: a number n, or a value that is none
\* (undefined, 'abc'), which arithmetic turns into NaN.
Number(n) == [isNumber |-> TRUE, n |-> n]

NotANumber == [isNumber |-> FALSE, n |-> 0]

\* length >= batchSize: a comparison with NaN is false
AtLeast(length, batchSize) == batchSize.isNumber /\ length >= batchSize.n

\* the deleteCount splice(0, batchSize) works with: ToIntegerOrInfinity,
\* which is 0 for NaN (SpliceFront clamps it to 0..length)
DeleteCount(batchSize) == IF batchSize.isNumber THEN batchSize.n ELSE 0

\* history: record r of the queue was passed to a record* method
Applied(w, r) ==
    LET call == <<r.type, r.nodeId, r.nodeType, r.flowId>>
    IN [w EXCEPT !.ghost.applied = Append(@, r.seq),
                 !.ghost.calls = MapSet(@, call, GetOrZero(@, call) + 1)]

\* the callback of batch.forEach in processBatch
ApplyRecord(w, r) ==
    IF r.type = "send"
      THEN Applied(RecordOutgoingMessage(w, r.nodeId, r.nodeType, r.flowId), r)
    ELSE IF r.type = "receive"
      THEN Applied(RecordIncomingMessage(w, r.nodeId, r.nodeType, r.flowId), r)
    ELSE w

\* mutant: the batch is walked from its end
RECURSIVE ApplyBatch_Reversed(_, _)
ApplyBatch_Reversed(w, batch) ==
    IF batch = <<>> THEN w
    ELSE ApplyBatch_Reversed(ApplyRecord(w, batch[Len(batch)]),
                             SubSeq(batch, 1, Len(batch) - 1))

\* batch.forEach(...): the callback runs on every record, in order
RECURSIVE ApplyBatch(_, _)
ApplyBatch(w, batch) ==
    IF batch = <<>> THEN w
    ELSE ApplyBatch(ApplyRecord(w, Head(batch)), Tail(batch))

\* mutant: slice instead of splice, the queue keeps what was taken
SpliceFront_Slice(queue, n) ==
    LET k == Min(Max(n, 0), Len(queue))
    IN [taken |-> SubSeq(queue, 1, k), left |-> queue]

\* messageBatch.splice(0, batchSize): the removed front and what is left
SpliceFront(queue, n) ==
    LET k == Min(Max(n, 0), Len(queue))
    IN [taken |-> SubSeq(queue, 1, k), left |-> SubSeq(queue, k + 1, Len(queue))]

\* mutant: the handle is not reset once the queue is drained
ProcessBatch_KeepsHandle(w) ==
    IF Len(w.hooks.messageBatch) = 0 THEN w
    ELSE LET sp == SpliceFront(w.hooks.messageBatch, DeleteCount(w.hooks.options.batchSize))
             w1 == [w EXCEPT !.hooks.messageBatch = sp.left,
                             !.ghost.flushes = @ + 1]
             w2 == ApplyBatch(w1, sp.taken)
         IN IF Len(w2.hooks.messageBatch) > 0
              THEN ArmBatchTimer(w2)
              ELSE w2

ProcessBatch(w) ==
    IF Len(w.hooks.messageBatch) = 0 THEN w
    ELSE LET sp == SpliceFront(w.hooks.messageBatch, DeleteCount(w.hooks.options.batchSize))
             w1 == [w EXCEPT !.hooks.messageBatch = sp.left,
                             !.ghost.flushes = @ + 1]
             w2 == ApplyBatch(w1, sp.taken)
         IN IF Len(w2.hooks.messageBatch) > 0
              THEN ArmBatchTimer(w2)
              ELSE [w2 EXCEPT !.hooks.batchTimer = 0]

\* mutant: below the batch size no flush timer is armed
AddToBatch_NoTimer(w, nodeId, nodeType, flowId, type) ==
    LET rec == [nodeId |-> nodeId, nodeType |-> nodeType, flowId |-> flowId,
                type |-> type, seq |-> w.ghost.enqueued + 1]
        w1 == [w EXCEPT !.hooks.messageBatch = Append(@, rec),
                        !.ghost.enqueued = @ + 1,
                        !.ghost.handled =
                            MapSet(@, <<type, nodeId, nodeType, flowId>>,
                                   GetOrZero(@, <<type, nodeId, nodeType, flowId>>) + 1)]
    IN IF AtLeast(Len(w1.hooks.messageBatch), w1.hooks.options.batchSize)
         THEN ProcessBatch(w1)
         ELSE w1

\* mutant: the synchronous flush waits for one record more
AddToBatch_FlushesLate(w, nodeId, nodeType, flowId, type) ==
    LET rec == [nodeId |-> nodeId, nodeType |-> nodeType, flowId |-> flowId,
                type |-> type, seq |-> w.ghost.enqueued + 1]
        w1 == [w EXCEPT !.hooks.messageBatch = Append(@, rec),
                        !.ghost.enqueued = @ + 1,
                        !.ghost.handled =
                            MapSet(@, <<type, nodeId, nodeType, flowId>>,
                                   GetOrZero(@, <<type, nodeId, nodeType, flowId>>) + 1)]
    IN IF AtLeast(Len(w1.hooks.messageBatch), Number(w1.hooks.options.batchSize.n + 1))
         THEN ProcessBatch(w1)
       ELSE IF w1.hooks.batchTimer = 0
         THEN ArmBatchTimer(w1)
       ELSE w1

\* mutant: a flush timer is armed whether or not one is pending
AddToBatch_AlwaysArms(w, nodeId, nodeType, flowId, type) ==
    LET rec == [nodeId |-> nodeId, nodeType |-> nodeType, flowId |-> flowId,
                type |-> type, seq |-> w.ghost.enqueued + 1]
        w1 == [w EXCEPT !.hooks.messageBatch = Append(@, rec),
                        !.ghost.enqueued = @ + 1,
                        !.ghost.handled =
                            MapSet(@, <<type, nodeId, nodeType, flowId>>,
                                   GetOrZero(@, <<type, nodeId, nodeType, flowId>>) + 1)]
    IN IF AtLeast(Len(w1.hooks.messageBatch), w1.hooks.options.batchSize)
         THEN ProcessBatch(w1)
         ELSE ArmBatchTimer(w1)

AddToBatch(w, nodeId, nodeType, flowId, type) ==
    LET rec == [nodeId |-> nodeId, nodeType |-> nodeType, flowId |-> flowId,
                type |-> type, seq |-> w.ghost.enqueued + 1]
        w1 == [w EXCEPT !.hooks.messageBatch = Append(@, rec),
                        !.ghost.enqueued = @ + 1,
                        !.ghost.handled =
                            MapSet(@, <<type, nodeId, nodeType, flowId>>,
                                   GetOrZero(@, <<type, nodeId, nodeType, flowId>>) + 1)]
    IN IF AtLeast(Len(w1.hooks.messageBatch), w1.hooks.options.batchSize)
         THEN ProcessBatch(w1)
       ELSE IF w1.hooks.batchTimer = 0
         THEN ArmBatchTimer(w1)
       ELSE w1

(* ---------------- NodeRedHooks: timing table ---------------- *)

\* messageStartTimes is a Map: a sequence of entries in insertion order
HasEntry(table, key) == \E i \in 1..Len(table) : table[i].key = key

\* messageStartTimes.get(key); Undefined when there is no entry
GetStart(table, key) ==
    IF HasEntry(table, key)
      THEN (CHOOSE e \in Range(table) : e.key = key).startTime
      ELSE Undefined

\* mutant: the entry of a key that has one is left as it is
SetStart_KeepsFirst(table, key, startTime) ==
    IF HasEntry(table, key)
      THEN table
      ELSE Append(table, [key |-> key, startTime |-> startTime])

\* messageStartTimes.set(key, startTime): an existing entry keeps its place
SetStart(table, key, startTime) ==
    IF HasEntry(table, key)
      THEN [i \in 1..Len(table) |->
              IF table[i].key = key
                THEN [key |-> key, startTime |-> startTime] ELSE table[i]]
      ELSE Append(table, [key |-> key, startTime |-> startTime])

\* messageStartTimes.delete(key)
DeleteStart(table, key) == SelectSeq(table, LAMBDA e : e.key # key)

\* insertion of e into a sequence sorted by startTime, after its equals
RECURSIVE InsertByStart(_, _)
InsertByStart(sorted, e) ==
    IF sorted = <<>> THEN <<e>>
    ELSE IF e.startTime < Head(sorted).startTime THEN <<e>> \o sorted
    ELSE <<Head(sorted)>> \o InsertByStart(Tail(sorted), e)

\* entries.sort((a, b) => a[1] - b[1]): a stable sort by start time
RECURSIVE SortByStart(_)
SortByStart(entries) ==
    IF entries = <<>> THEN <<>>
    ELSE InsertByStart(SortByStart(SubSeq(entries, 1, Len(entries) - 1)),
                       entries[Len(entries)])

\* mutant: the entries are not sorted before the slice
EvictOldest_Unsorted(table) ==
    IF Len(table) > MaxTimingEntries
      THEN LET toRemove == {table[i].key : i \in 1..(Len(table) - MaxTimingEntries)}
           IN SelectSeq(table, LAMBDA e : e.key \notin toRemove)
      ELSE table

\* the size pass: the oldest entries beyond maxTimingEntries are deleted
EvictOldest(table) ==
    IF Len(table) > MaxTimingEntries
      THEN LET sorted == SortByStart(table)
               toRemove == {sorted[i].key : i \in 1..(Len(table) - MaxTimingEntries)}
           IN SelectSeq(table, LAMBDA e : e.key \notin toRemove)
      ELSE table

\* mutant: the age is taken the wrong way round
EvictExpired_Swapped(table, t) == SelectSeq(table, LAMBDA e : ~(e.startTime - t > maxAge))

\* the age pass: entries with now - startTime > maxAge are deleted
EvictExpired(table, t) == SelectSeq(table, LAMBDA e : ~(t - e.startTime > maxAge))

\* history: the begun pairs whose entry the sweep removed from the table
\* before are forgotten
Swept(before, w) ==
    LET gone == {p \in DOMAIN w.ghost.begun :
                    /\ HasEntry(before, TimingKey(p[1], p[2]))
                    /\ ~HasEntry(w.hooks.messageStartTimes, TimingKey(p[1], p[2]))}
    IN [w EXCEPT !.ghost.begun = [p \in (DOMAIN @) \ gone |-> @[p]]]

CleanupTimingEntries(w, t) ==
    Swept(w.hooks.messageStartTimes,
          [w EXCEPT !.hooks.messageStartTimes = EvictExpired(EvictOldest(@), t)])

(* ---------------- NodeRedHooks: host event handlers ---------------- *)

\* An event is [nil, node |-> descriptor, msgid |-> msg._msgid, error]; nil
\* says that the host passed null or undefined instead of an object.  The
\* descriptor is sendEvent.source, receiveEvent.destination or
\* completeEvent.node.  It has no nested .node, so `x?.node || x` is the
\* descriptor itself; a missing descriptor reads like one without fields,
\* since every read of it goes through `?.`.  error is completeEvent.error:
\* present says that there is one, name is its .name.
NoError == [present |-> FALSE, name |-> Undefined]

Event(kind, node, msgid, error) ==
    [kind |-> kind, nil |-> FALSE, node |-> node, msgid |-> msgid, error |-> error]

NoDescriptor == [id |-> Undefined, type |-> Undefined, z |-> Undefined]

\* null passed as the event
NullEvent(kind) ==
    [kind |-> kind, nil |-> TRUE, node |-> NoDescriptor, msgid |-> Undefined,
     error |-> NoError]

\* history: 1 when a begin at time t finds an entry written earlier
Rebegins(w, timingKey, t) ==
    IF /\ HasEntry(w.hooks.messageStartTimes, timingKey)
       /\ GetStart(w.hooks.messageStartTimes, timingKey) < t
      THEN 1 ELSE 0

\* the outer catch of a handler: the exception is logged, nothing else
CaughtOutside(w) == [w EXCEPT !.ghost.threw = @ + 1]

\* a property of null or undefined is read: a TypeError is thrown
ThrowsOnRead(event) == event.nil

\* mutant: a missing message id reads as 'unknown', as in handleCompleteEvent
HandleSendEvent_UnknownId(w, sendEvent, t, generated) ==
    IF ThrowsOnRead(sendEvent) THEN CaughtOutside(w) ELSE
    LET node == sendEvent.node
        nodeId == OrElse(node.id, "unknown")
        nodeType == OrElse(node.type, "unknown")
        flowId == OrElse(node.z, "unknown")
        messageId == OrElse(sendEvent.msgid, "unknown")
        w1 == AddToBatch(w, nodeId, nodeType, flowId, "send")
        timingKey == TimingKey(nodeId, messageId)
    IN [w1 EXCEPT !.hooks.messageStartTimes = SetStart(@, timingKey, t),
                  !.ghost.begun = MapSet(@, <<nodeId, messageId>>, t),
                  !.ghost.rebegun = @ + Rebegins(w1, timingKey, t)]

HandleSendEvent(w, sendEvent, t, generated) ==
    IF ThrowsOnRead(sendEvent) THEN CaughtOutside(w) ELSE
    LET node == sendEvent.node
        nodeId == OrElse(node.id, "unknown")
        nodeType == OrElse(node.type, "unknown")
        flowId == OrElse(node.z, "unknown")
        messageId == OrElse(sendEvent.msgid, generated)
        w1 == AddToBatch(w, nodeId, nodeType, flowId, "send")
        timingKey == TimingKey(nodeId, messageId)
    IN [w1 EXCEPT !.hooks.messageStartTimes = SetStart(@, timingKey, t),
                  !.ghost.begun = MapSet(@, <<nodeId, messageId>>, t),
                  !.ghost.rebegun = @ + Rebegins(w1, timingKey, t)]

HandleReceiveEvent(w, receiveEvent, t, generated) ==
    IF ThrowsOnRead(receiveEvent) THEN CaughtOutside(w) ELSE
    LET node == receiveEvent.node
        nodeId == OrElse(node.id, "unknown")
        nodeType == OrElse(node.type, "unknown")
        flowId == OrElse(node.z, "unknown")
        messageId == OrElse(receiveEvent.msgid, generated)
        timingKey == TimingKey(nodeId, messageId)
        w1 == [w EXCEPT !.hooks.messageStartTimes = SetStart(@, timingKey, t),
                        !.ghost.begun = MapSet(@, <<nodeId, messageId>>, t),
                        !.ghost.rebegun = @ + Rebegins(w, timingKey, t)]
    IN AddToBatch(w1, nodeId, nodeType, flowId, "receive")

\* (Date.now() - startTime) / 1000, kept as a fraction
Seconds(ms) == [num |-> ms, den |-> 1000]

\* mutant: the entry stays in the table after the completion
CompleteBody_KeepsEntry(w, nodeId, nodeType, flowId, messageId, error, t) ==
    LET timingKey == TimingKey(nodeId, messageId)
        table == w.hooks.messageStartTimes
        found == HasEntry(table, timingKey) /\ GetStart(table, timingKey) # 0
        w1 == IF found
                THEN [RecordNodeExecution(w, nodeId, nodeType, flowId,
                                          Seconds(t - GetStart(table, timingKey)))
                        EXCEPT !.ghost.begun = [p \in (DOMAIN @) \ {<<nodeId, messageId>>} |-> @[p]]]
                ELSE w
        w2 == IF error.present
                THEN RecordError(w1, nodeId, nodeType, flowId,
                                 OrElse(error.name, "execution"))
                ELSE w1
    IN [w2 EXCEPT !.ghost.completes = @ + 1,
                  !.ghost.lastComplete =
                      [nodeId |-> nodeId, nodeType |-> nodeType, flowId |-> flowId,
                       messageId |-> messageId, t |-> t, found |-> found,
                       error |-> error,
                       begun |-> <<nodeId, messageId>> \in DOMAIN w.ghost.begun,
                       begunAt |-> GetOrZero(w.ghost.begun, <<nodeId, messageId>>)]]

\* mutant: the error is recorded only when a start timestamp was found
CompleteBody_ErrorOnlyIfFound(w, nodeId, nodeType, flowId, messageId, error, t) ==
    LET timingKey == TimingKey(nodeId, messageId)
        table == w.hooks.messageStartTimes
        found == HasEntry(table, timingKey) /\ GetStart(table, timingKey) # 0
        w1 == IF found
                THEN [RecordNodeExecution(w, nodeId, nodeType, flowId,
                                          Seconds(t - GetStart(table, timingKey)))
                        EXCEPT !.hooks.messageStartTimes = DeleteStart(@, timingKey),
                               !.ghost.begun = [p \in (DOMAIN @) \ {<<nodeId, messageId>>} |-> @[p]]]
                ELSE w
        w2 == IF error.present /\ found
                THEN RecordError(w1, nodeId, nodeType, flowId,
                                 OrElse(error.name, "execution"))
                ELSE w1
    IN [w2 EXCEPT !.ghost.completes = @ + 1,
                  !.ghost.lastComplete =
                      [nodeId |-> nodeId, nodeType |-> nodeType, flowId |-> flowId,
                       messageId |-> messageId, t |-> t, found |-> found,
                       error |-> error,
                       begun |-> <<nodeId, messageId>> \in DOMAIN w.ghost.begun,
                       begunAt |-> GetOrZero(w.ghost.begun, <<nodeId, messageId>>)]]

\* the body of the inner try of handleCompleteEvent
CompleteBody(w, nodeId, nodeType, flowId, messageId, error, t) ==
    LET timingKey == TimingKey(nodeId, messageId)
        table == w.hooks.messageStartTimes
        found == HasEntry(table, timingKey) /\ GetStart(table, timingKey) # 0
        w1 == IF found
                THEN [RecordNodeExecution(w, nodeId, nodeType, flowId,
                                          Seconds(t - GetStart(table, timingKey)))
                        EXCEPT !.hooks.messageStartTimes = DeleteStart(@, timingKey),
                               !.ghost.begun = [p \in (DOMAIN @) \ {<<nodeId, messageId>>} |-> @[p]]]
                ELSE w
        w2 == IF error.present
                THEN RecordError(w1, nodeId, nodeType, flowId,
                                 OrElse(error.name, "execution"))
                ELSE w1
    IN [w2 EXCEPT !.ghost.completes = @ + 1,
                  !.ghost.lastComplete =
                      [nodeId |-> nodeId, nodeType |-> nodeType, flowId |-> flowId,
                       messageId |-> messageId, t |-> t, found |-> found,
                       error |-> error,
                       begun |-> <<nodeId, messageId>> \in DOMAIN w.ghost.begun,
                       begunAt |-> GetOrZero(w.ghost.begun, <<nodeId, messageId>>)]]

HandleCompleteEvent(w, completeEvent, t) ==
    IF ThrowsOnRead(completeEvent) THEN CaughtOutside(w) ELSE
    LET node == completeEvent.node
        nodeId == OrElse(node.id, "unknown")
        nodeType == OrElse(node.type, "unknown")
        flowId == OrElse(node.z, "unknown")
        messageId == OrElse(completeEvent.msgid, "unknown")
    IN CompleteBody(w, nodeId, nodeType, flowId, messageId, completeEvent.error, t)

\* error?.name || fallback
ErrorName(error, fallback) ==
    IF error.present THEN OrElse(error.name, fallback) ELSE fallback

\* the 'node-error' listener; event.node is the descriptor
HandleNodeError(w, event) ==
    IF ThrowsOnRead(event) THEN CaughtOutside(w) ELSE
    LET nodeId == OrElse(event.node.id, "unknown")
        nodeType == OrElse(event.node.type, "unknown")
        flowId == OrElse(event.node.z, "unknown")
        errorType == ErrorName(event.error, "runtime")
    IN RecordError(w, nodeId, nodeType, flowId, errorType)

\* the 'flow-error' listener; the descriptor of the event is event.flow
HandleFlowError(w, event) ==
    IF ThrowsOnRead(event) THEN CaughtOutside(w) ELSE
    LET flowId == OrElse(event.node.id, "unknown")
        errorType == ErrorName(event.error, "flow")
    IN RecordError(w, "flow", "flow", flowId, errorType)

\* history: an exception left a callback and reached the host
Escapes(w) == [w EXCEPT !.ghost.escaped = TRUE]

\* sendEvents.forEach(handleSendEvent) on the array's elements, in order
RECURSIVE ForEachSendEvent(_, _, _, _)
ForEachSendEvent(w, items, t, generated) ==
    IF items = <<>> THEN w
    ELSE ForEachSendEvent(HandleSendEvent(w, Head(items), t, generated),
                          Tail(items), t, generated)

\* the callback registered for onSend: (sendEvents) => sendEvents.forEach(...);
\* a payload that is no array has no forEach, and the TypeError is not caught
OnSendCallback(w, sendEvents, t, generated) ==
    IF ~sendEvents.isArray THEN Escapes(w)
    ELSE ForEachSendEvent(w, sendEvents.items, t, generated)

\* the 'flows:stopped' listener: this.messageStartTimes.clear()
HandleFlowsStopped(w) ==
    [w EXCEPT !.hooks.messageStartTimes = <<>>, !.ghost.cleared = TRUE]

(* ---------------- MetricsCollector: rate tick, start, stop ---------------- *)

\* the index of the first sep in s at or after i, or Len(s) + 1
RECURSIVE IndexOf(_, _, _)
IndexOf(s, sep, i) ==
    IF i > Len(s) THEN Len(s) + 1
    ELSE IF SubSeq(s, i, i) = sep THEN i
    ELSE IndexOf(s, sep, i + 1)

\* s.split(sep) for a one-character sep
RECURSIVE Split(_, _)
Split(s, sep) ==
    LET j == IndexOf(s, sep, 1)
    IN IF j > Len(s) THEN <<s>>
       ELSE <<SubSeq(s, 1, j - 1)>> \o Split(SubSeq(s, j + 1, Len(s)), sep)

\* const [nodeId, nodeType, flowId] = key.split(':')
Labels(key) ==
    LET parts == Split(key, ":")
    IN [i \in 1..3 |-> IF i <= Len(parts) THEN parts[i] ELSE Undefined]

\* rate = Math.max(0, currentCount - lastCount) / 5, kept as a fraction
Rate(currentCount, lastCount) ==
    [num |-> Max(0, currentCount - lastCount), den |-> RateDivisor]

\* history: the numerators of the rates written so far, added up for every
\* direction and key
RateSums(sums, type, counters, lastCounts) ==
    [p \in (DOMAIN sums) \cup {<<type, k>> : k \in DOMAIN counters} |->
        GetOrZero(sums, p)
          + (IF p[1] = type /\ p[2] \in DOMAIN counters
               THEN Rate(counters[p[2]], GetOrZero(lastCounts, p[2])).num
               ELSE 0)]

\* mutant: the sample of the previous tick is not replaced
RateLoop_KeepsLast(counters, lastCounts, gauge) ==
    [last |-> lastCounts,
     gauge |-> [l \in (DOMAIN gauge) \cup {Labels(k) : k \in DOMAIN counters} |->
                  IF \E k \in DOMAIN counters : Labels(k) = l
                    THEN LET k == CHOOSE k \in DOMAIN counters : Labels(k) = l
                         IN Rate(counters[k], GetOrZero(lastCounts, k))
                    ELSE gauge[l]]]

\* one of the two loops of calculateMessagesPerSecond
RateLoop(counters, lastCounts, gauge) ==
    [last |-> [k \in (DOMAIN lastCounts) \cup (DOMAIN counters) |->
                  IF k \in DOMAIN counters THEN counters[k] ELSE lastCounts[k]],
     gauge |-> [l \in (DOMAIN gauge) \cup {Labels(k) : k \in DOMAIN counters} |->
                  IF \E k \in DOMAIN counters : Labels(k) = l
                    THEN LET k == CHOOSE k \in DOMAIN counters : Labels(k) = l
                         IN Rate(counters[k], GetOrZero(lastCounts, k))
                    ELSE gauge[l]]]

\* mutant: the sampled counters are reset for the next interval
CalculateMessagesPerSecond_ResetsCounters(w) ==
    LET c == w.collector
        inc == RateLoop(c.incomingMessageCounters, c.lastIncomingMessageCounts,
                        c.messagesIncomingPerSecond)
        out == RateLoop(c.outgoingMessageCounters, c.lastOutgoingMessageCounts,
                        c.messagesOutgoingPerSecond)
    IN [w EXCEPT !.ghost.rateSum =
                     RateSums(RateSums(@, "receive", c.incomingMessageCounters,
                                       c.lastIncomingMessageCounts),
                              "send", c.outgoingMessageCounters,
                              c.lastOutgoingMessageCounts),
                 !.collector.lastIncomingMessageCounts = inc.last,
                 !.collector.messagesIncomingPerSecond = inc.gauge,
                 !.collector.lastOutgoingMessageCounts = out.last,
                 !.collector.messagesOutgoingPerSecond = out.gauge,
                 !.collector.incomingMessageCounters = EmptyMap,
                 !.collector.outgoingMessageCounters = EmptyMap]

CalculateMessagesPerSecond(w) ==
    LET c == w.collector
        inc == RateLoop(c.incomingMessageCounters, c.lastIncomingMessageCounts,
                        c.messagesIncomingPerSecond)
        out == RateLoop(c.outgoingMessageCounters, c.lastOutgoingMessageCounts,
                        c.messagesOutgoingPerSecond)
    IN [w EXCEPT !.ghost.rateSum =
                     RateSums(RateSums(@, "receive", c.incomingMessageCounters,
                                       c.lastIncomingMessageCounts),
                              "send", c.outgoingMessageCounters,
                              c.lastOutgoingMessageCounts),
                 !.collector.lastIncomingMessageCounts = inc.last,
                 !.collector.messagesIncomingPerSecond = inc.gauge,
                 !.collector.lastOutgoingMessageCounts = out.last,
                 !.collector.messagesOutgoingPerSecond = out.gauge]

\* `x && x !== 'undefined'` on a part of a split key
Named(x) == ~Falsy(x) /\ x # "undefined"

\* the size of the Set of flow ids both loops of calculateRealFlowMetrics fill
CalculateRealFlowMetrics(w) ==
    LET keys == (DOMAIN w.collector.incomingMessageCounters)
                  \cup (DOMAIN w.collector.outgoingMessageCounters)
        uniqueFlows == {Labels(k)[3] : k \in {k \in keys : Named(Labels(k)[3])}}
    IN [totalFlows |-> Cardinality(uniqueFlows),
        activeFlows |-> Cardinality(uniqueFlows),
        flowIds |-> uniqueFlows]

\* calculateRealNodeMetrics: nodeTypes[nodeType] is raised once for every
\* incoming key and once for every outgoing key the incoming map does not
\* have; uniqueNodes is the Set of the node ids of these keys
CalculateRealNodeMetrics(w) ==
    LET incoming == {k \in DOMAIN w.collector.incomingMessageCounters :
                        Named(Labels(k)[2])}
        outgoing == {k \in DOMAIN w.collector.outgoingMessageCounters :
                        Named(Labels(k)[2])}
        counted == [type \in {Labels(k)[2] : k \in incoming \cup outgoing} |->
                      Cardinality({k \in incoming : Labels(k)[2] = type})
                        + Cardinality({k \in outgoing :
                                          /\ Labels(k)[2] = type
                                          /\ k \notin DOMAIN w.collector.incomingMessageCounters})]
    IN [nodeTypes |-> counted,
        activeNodeTypes |-> counted,
        totalNodes |-> Cardinality({Labels(k)[1] : k \in incoming \cup outgoing})]

\* Object.keys(nodeTypes).forEach(type => gauge.set({type}, counts[type]))
SetAll(gauge, counts) ==
    [type \in (DOMAIN gauge) \cup (DOMAIN counts) |->
        IF type \in DOMAIN counts THEN counts[type] ELSE gauge[type]]

UpdateMetricsFromRealData(w) ==
    LET flowMetrics == CalculateRealFlowMetrics(w)
        nodeMetrics == CalculateRealNodeMetrics(w)
        w1 == IF flowMetrics.totalFlows > 0
                THEN [w EXCEPT !.collector.flowsTotal = flowMetrics.totalFlows,
                               !.collector.flowsActive = flowMetrics.activeFlows]
                ELSE w
    IN IF nodeMetrics.totalNodes > 0
         THEN [w1 EXCEPT !.collector.nodesTotal = SetAll(@, nodeMetrics.nodeTypes),
                         !.collector.nodesActive = SetAll(@, nodeMetrics.activeNodeTypes)]
         ELSE w1

\* the callback of the update interval: collectFlowMetrics() and
\* collectNodeTypeMetrics() both call updateMetricsFromRealData() (the memory
\* gauges updateSystemMetrics() sets are not part of the model)
PeriodicUpdate(w) == UpdateMetricsFromRealData(UpdateMetricsFromRealData(w))

\* getMetrics() / getRegistry(): what the registry holds for the instruments
\* when it is read; nothing is recomputed for the reader
GetMetrics(w) ==
    [nodered_flows_total |-> w.collector.flowsTotal,
     nodered_flows_active |-> w.collector.flowsActive,
     nodered_nodes_total |-> w.collector.nodesTotal,
     nodered_nodes_active |-> w.collector.nodesActive,
     nodered_messages_incoming_total |-> w.collector.messagesIncomingTotal,
     nodered_messages_outgoing_total |-> w.collector.messagesOutgoingTotal,
     nodered_messages_incoming_per_second |-> w.collector.messagesIncomingPerSecond,
     nodered_messages_outgoing_per_second |-> w.collector.messagesOutgoingPerSecond,
     nodered_errors_total |-> w.collector.errorsTotal,
     nodered_node_execution_time_seconds |-> w.collector.nodeExecutionTime]

CollectorStart(w) ==
    IF w.collector.isCollecting THEN w
    ELSE SetInterval([w EXCEPT !.collector.isCollecting = TRUE,
                               !.collector.collectInterval = TRUE,
                               !.loop.collectPeriod = TickPeriod], "collect")

CollectorStop(w) ==
    IF ~w.collector.isCollecting THEN w
    ELSE LET w1 == [w EXCEPT !.collector.isCollecting = FALSE]
         IN IF w1.collector.collectInterval
              THEN [ClearInterval(w1, "collect") EXCEPT !.collector.collectInterval = FALSE]
              ELSE w1

(* ---------------- NodeRedHooks: init and stop ---------------- *)

\* setupOfficialHooks: RED.hooks.add for onSend, onReceive and onComplete
SetupOfficialHooks(w) ==
    [w EXCEPT !.loop.onSend = @ + 1,
              !.loop.onReceive = @ + 1,
              !.loop.onComplete = @ + 1,
              !.hooks.registeredHooks = @ + 3]

\* setupEventBasedHooks: RED.events.on for the lifecycle and error events
SetupEventBasedHooks(w) == [w EXCEPT !.loop.listeners = @ + 1]

StartPeriodicUpdates(w) ==
    SetInterval([w EXCEPT !.hooks.updateInterval = TRUE], "update")

\* mutant: init does not look at isInitialized
HooksInit_NoGuard(w) ==
    StartPeriodicUpdates(SetupEventBasedHooks(SetupOfficialHooks(
        [w EXCEPT !.hooks.isInitialized = TRUE])))

HooksInit(w) ==
    IF w.hooks.isInitialized THEN w
    ELSE StartPeriodicUpdates(SetupEventBasedHooks(SetupOfficialHooks(
            [w EXCEPT !.hooks.isInitialized = TRUE])))

\* the three `if (timer) { clear...(timer); timer = null }` of stop()
StopTimers(w) ==
    LET w1 == IF w.hooks.updateInterval
                THEN [ClearInterval(w, "update") EXCEPT !.hooks.updateInterval = FALSE]
                ELSE w
        w2 == IF w1.hooks.cleanupTimer
                THEN [ClearInterval(w1, "cleanup") EXCEPT !.hooks.cleanupTimer = FALSE]
                ELSE w1
    IN IF w2.hooks.batchTimer # 0
         THEN [ClearTimeout(w2, w2.hooks.batchTimer) EXCEPT !.hooks.batchTimer = 0]
         ELSE w2

\* messageStartTimes.clear(); messageBatch = []; registeredHooks = []
ClearTables(w) ==
    [w EXCEPT !.hooks.messageStartTimes = <<>>,
              !.hooks.messageBatch = <<>>,
              !.hooks.registeredHooks = 0,
              !.ghost.dropped = @ \cup {r.seq : r \in Range(w.hooks.messageBatch)},
              !.ghost.begun = EmptyMap]

\* mutant: the queue is emptied before the final flush
HooksStop_DiscardFirst(w) ==
    [ProcessBatch(ClearTables(StopTimers(w))) EXCEPT !.hooks.isInitialized = FALSE]

HooksStop(w) ==
    [ClearTables(ProcessBatch(StopTimers(w))) EXCEPT !.hooks.isInitialized = FALSE]

(* ---------------- NodeRedFlowMetrics: init and stop ---------------- *)

\* init(RED) up to `await this.prometheusExporter.start(...)`; initPending
\* counts the calls that wait there
EngineInitCall(w) ==
    IF w.engine.isInitialized THEN w
    ELSE LET w1 == CollectorStart(HooksInit(w))
         IN [w1 EXCEPT !.engine.initPending = @ + 1]

\* the rest of init(RED), once the server listens or fails to; an error
\* other than EADDRINUSE is thrown to the caller
EngineInitSettle(w, outcome) ==
    LET w1 == [w EXCEPT !.engine.initPending = @ - 1]
    IN IF outcome = "error" THEN [w1 EXCEPT !.ghost.raised = TRUE]
       ELSE [w1 EXCEPT !.engine.isServerRunning = TRUE,
                       !.engine.isInitialized = TRUE]

\* how a listen on the port can end: once a listen of this engine found
\* the port bound or in use, another one listens (the exporter runs already)
\* or finds it in use, and fails for no other reason
ListenOutcomes(w) ==
    IF w.engine.isServerRunning
      THEN {"listening", "EADDRINUSE"}
      ELSE {"listening", "EADDRINUSE", "error"}

\* stop() up to `await this.prometheusExporter.stop()`
EngineStopCall(w) ==
    [HooksStop(w) EXCEPT !.engine.stopPending = TRUE]

\* the rest of stop(), once the server is closed
EngineStopSettle(w) ==
    [w EXCEPT !.engine.stopPending = FALSE,
              !.engine.isServerRunning = FALSE,
              !.engine.isInitialized = FALSE]

(* ---------------- the state machine ---------------- *)

\* history: no completion event was handled yet
NoComplete ==
    [nodeId |-> Undefined, nodeType |-> Undefined, flowId |-> Undefined,
     messageId |-> Undefined, t |-> 0, found |-> FALSE, begun |-> FALSE,
     error |-> [present |-> FALSE, name |-> Undefined],
     begunAt |-> 0]

\* values of options.collectInterval a caller constructs the engine with
CollectIntervals == {DefaultCollectInterval, 10000}

\* the state after `new NodeRedFlowMetrics({collectInterval, batchSize})`: the
\* constructors copy the options and check none of them
ConstructedWith(collectInterval, batchSize) ==
    /\ hooks = [isInitialized |-> FALSE,
                updateInterval |-> FALSE,
                cleanupTimer |-> TRUE,
                messageStartTimes |-> <<>>,
                registeredHooks |-> 0,
                messageBatch |-> <<>>,
                batchTimer |-> 0,
                options |-> [batchSize |-> batchSize]]
    /\ collector = [messagesIncomingTotal |-> EmptyMap,
                    messagesOutgoingTotal |-> EmptyMap,
                    messagesTotal |-> EmptyMap,
                    messageCounters |-> EmptyMap,
                    messagesIncomingPerSecond |-> EmptyMap,
                    messagesOutgoingPerSecond |-> EmptyMap,
                    incomingMessageCounters |-> EmptyMap,
                    outgoingMessageCounters |-> EmptyMap,
                    lastIncomingMessageCounts |-> EmptyMap,
                    lastOutgoingMessageCounts |-> EmptyMap,
                    flowsTotal |-> 0,
                    flowsActive |-> 0,
                    nodesTotal |-> EmptyMap,
                    nodesActive |-> EmptyMap,
                    errorsTotal |-> EmptyMap,
                    nodeExecutionTime |-> EmptyMap,
                    collectInterval |-> FALSE,
                    isCollecting |-> FALSE,
                    options |-> [collectInterval |-> collectInterval]]
    /\ engine = [isInitialized |-> FALSE, isServerRunning |-> FALSE,
                 initPending |-> 0, stopPending |-> FALSE]
    /\ loop = [timeouts |-> <<>>,
               collectPeriod |-> 0,
               intervals |-> [k \in {"cleanup", "update", "collect"} |->
                                 IF k = "cleanup" THEN 1 ELSE 0],
               onSend |-> 0, onReceive |-> 0, onComplete |-> 0, listeners |-> 0,
               globalMetrics |-> 0, isServerRunning |-> FALSE,
               instances |-> <<>>, created |-> 0, nodes |-> 0]
    /\ now = 1
    /\ ghost = [lastOp |-> "new", enqueued |-> 0, applied |-> <<>>, dropped |-> {},
                flushes |-> 0, advances |-> 0, sweptFrom |-> <<>>,
                stoppedWith |-> <<>>,
                calls |-> EmptyMap,
                begun |-> EmptyMap, cleared |-> FALSE, completes |-> 0, lastComplete |-> NoComplete,
                threw |-> 0, recorded |-> 0, escaped |-> FALSE, nulls |-> 0,
                raised |-> FALSE, rebegun |-> 0,
                handled |-> EmptyMap, rateSum |-> EmptyMap]

\* the same with the default batch size
Constructed(collectInterval) == ConstructedWith(collectInterval, Number(BatchSize))

\* the state after `new NodeRedFlowMetrics()`
Init == Constructed(DefaultCollectInterval)

\* the state after `new NodeRedFlowMetrics({collectInterval})`, for any of
\* the values a caller may give
InitOptions == \E collectInterval \in CollectIntervals : Constructed(collectInterval)

OneNode == { [id |-> "n1", type |-> "inject", z |-> "f1"] }

\* the handler runs once for each time it was registered with the host
RECURSIVE Deliver(_, _, _, _, _)
Deliver(w, n, ev, t, generated) ==
    IF n = 0 THEN w
    ELSE Deliver(IF ev.kind = "send"
                   THEN HandleSendEvent(w, ev, t, generated)
                 ELSE IF ev.kind = "receive"
                   THEN HandleReceiveEvent(w, ev, t, generated)
                 ELSE HandleCompleteEvent(w, ev, t),
                 n - 1, ev, t, generated)

\* one more event stays within the bound, however many handlers it reaches
CanEnqueue(n) == ghost.enqueued + n <= MaxEvents

\* the host runs the onSend hooks for one send event
OnSend(nodes, msgids) ==
    /\ loop.onSend > 0
    /\ CanEnqueue(loop.onSend)
    /\ \E node \in nodes, msgid \in msgids, generated \in GeneratedIds :
          Becomes(Did(Deliver(World, loop.onSend,
                              Event("send", node, msgid, NoError),
                              now, generated), "onSend"))
    /\ UNCHANGED now

\* the host runs the onReceive hooks for one receive event
OnReceive(nodes, msgids) ==
    /\ loop.onReceive > 0
    /\ CanEnqueue(loop.onReceive)
    /\ \E node \in nodes, msgid \in msgids, generated \in GeneratedIds :
          Becomes(Did(Deliver(World, loop.onReceive,
                              Event("receive", node, msgid, NoError),
                              now, generated), "onReceive"))
    /\ UNCHANGED now

\* the host runs the onComplete hooks for one completion event
OnComplete(nodes, msgids, errors) ==
    /\ loop.onComplete > 0
    /\ ghost.completes + loop.onComplete <= MaxCompletes
    /\ \E node \in nodes, msgid \in msgids, error \in errors :
          Becomes(Did(Deliver(World, loop.onComplete,
                              Event("complete", node, msgid, error),
                              now, Undefined), "onComplete"))
    /\ UNCHANGED now

\* the host runs the onSend hooks with a payload: an array of events, or
\* something that is no array
RECURSIVE DeliverPayload(_, _, _, _, _)
DeliverPayload(w, n, sendEvents, t, generated) ==
    IF n = 0 \/ w.ghost.escaped THEN w
    ELSE DeliverPayload(OnSendCallback(w, sendEvents, t, generated),
                        n - 1, sendEvents, t, generated)

\* the enqueues a payload leads to
Enqueues(sendEvents) ==
    IF sendEvents.isArray
      THEN Len(SelectSeq(sendEvents.items, LAMBDA ev : ~ev.nil))
      ELSE 0

OnSendPayload(payloads) ==
    /\ loop.onSend > 0
    /\ \E sendEvents \in payloads, generated \in GeneratedIds :
          /\ CanEnqueue(loop.onSend * Enqueues(sendEvents))
          /\ Becomes(Did(DeliverPayload(World, loop.onSend, sendEvents, now, generated),
                         "onSend"))
    /\ UNCHANGED now

\* the host passes null to the onReceive or onComplete hooks
OnNull(kinds) ==
    /\ ghost.nulls < MaxNulls
    /\ \E kind \in kinds :
          LET n == IF kind = "receive" THEN loop.onReceive ELSE loop.onComplete
          IN
          n > 0 /\
          Becomes([Did(Deliver(World, n, NullEvent(kind), now, Undefined),
                       IF kind = "receive" THEN "onReceive" ELSE "onComplete")
                     EXCEPT !.ghost.nulls = @ + 1])
    /\ UNCHANGED now

\* the host emits 'node-error' or 'flow-error': every registered listener runs
RECURSIVE DeliverError(_, _, _)
DeliverError(w, n, event) ==
    IF n = 0 THEN w
    ELSE DeliverError(IF event.kind = "nodeError"
                        THEN HandleNodeError(w, event)
                        ELSE HandleFlowError(w, event),
                      n - 1, event)

OnError(events) ==
    /\ loop.listeners > 0
    /\ ghost.nulls < MaxNulls
    /\ \E event \in events :
          Becomes([Did(DeliverError(World, loop.listeners, event), event.kind)
                     EXCEPT !.ghost.nulls = @ + 1])
    /\ UNCHANGED now

\* a caller that holds the collector records a duration itself
RecordNodeExecutionCalled(durations) ==
    /\ ghost.nulls < MaxNulls
    /\ \E duration \in durations :
          Becomes([Did(RecordNodeExecution(World, "n1", "inject", "f1", duration),
                       "recordNodeExecution")
                     EXCEPT !.ghost.nulls = @ + 1])
    /\ UNCHANGED now

\* a caller that holds the collector counts a message itself
RecordMessageCalled(fields) ==
    /\ ghost.nulls < MaxNulls
    /\ \E type \in {"send", "receive"}, nodeId \in fields, nodeType \in fields,
          flowId \in fields :
          LET w == IF type = "send"
                     THEN RecordOutgoingMessage(World, nodeId, nodeType, flowId)
                     ELSE RecordIncomingMessage(World, nodeId, nodeType, flowId)
              call == <<type, nodeId, nodeType, flowId>>
          IN Becomes([Did(w, "recordMessage")
                        EXCEPT !.ghost.nulls = @ + 1,
                               !.ghost.calls = MapSet(@, call, GetOrZero(@, call) + 1)])
    /\ UNCHANGED now

\* the wall clock is set back between two callbacks
ClockSetBack ==
    /\ ghost.advances < MaxAdvances
    /\ now > 1
    /\ now' = now - 1
    /\ ghost' = [ghost EXCEPT !.advances = @ + 1, !.lastOp = "setBack",
                              !.sweptFrom = <<>>, !.stoppedWith = <<>>,
                              !.threw = 0, !.recorded = 0, !.raised = FALSE]
    /\ UNCHANGED <<hooks, collector, engine, loop>>

\* the host emits 'flows:stopped': every registered listener runs
FlowsStopped ==
    /\ loop.listeners > 0
    /\ hooks.messageStartTimes # <<>>
    /\ Becomes(Did(HandleFlowsStopped(World), "flowsStopped"))
    /\ UNCHANGED now

\* the oldest scheduled flush timeout fires: () => this.processBatch()
FlushTimerFires ==
    /\ loop.timeouts # <<>>
    /\ Becomes(Did(ProcessBatch([World EXCEPT !.loop.timeouts = Tail(@)]), "flushTimer"))
    /\ UNCHANGED now

\* the same, in runs where timeouts could fire without end
FlushTimerFiresBounded ==
    /\ ghost.flushes < MaxFlushes
    /\ FlushTimerFires

\* the cleanup interval fires: () => this.cleanupTimingEntries()
CleanupTimerFires ==
    /\ loop.intervals["cleanup"] > 0
    /\ Becomes([Did(CleanupTimingEntries(World, now), "cleanup")
                   EXCEPT !.ghost.sweptFrom = hooks.messageStartTimes])
    /\ UNCHANGED now

\* the collection interval fires: calculateMessagesPerSecond() (the memory
\* gauges it also sets are not part of the model)
CollectTimerFires ==
    /\ loop.intervals["collect"] > 0
    /\ Becomes(Did(CalculateMessagesPerSecond(World), "rateTick"))
    /\ UNCHANGED now

\* the update interval fires
UpdateTimerFires ==
    /\ loop.intervals["update"] > 0
    /\ Becomes(Did(PeriodicUpdate(World), "update"))
    /\ UNCHANGED now

EngineInit ==
    /\ engine.initPending = 0
    /\ hooks.isInitialized \/ loop.onSend < MaxInits
    /\ Becomes(Did(EngineInitCall(World), "init"))
    /\ UNCHANGED now

\* init(RED) on an engine that was initialised and stopped before
EngineInitAgain ==
    /\ engine.initPending = 0
    /\ ~hooks.isInitialized
    /\ loop.onSend \in 1..(MaxReinits - 1)
    /\ Becomes(Did(EngineInitCall(World), "init"))
    /\ UNCHANGED now

\* init(RED) is called again while an earlier call waits for the server
EngineInitConcurrent ==
    /\ engine.initPending > 0
    /\ engine.initPending < MaxPendingInits
    /\ hooks.isInitialized \/ loop.onSend < MaxInits
    /\ Becomes(Did(EngineInitCall(World), "init"))
    /\ UNCHANGED now

EngineInitDone ==
    /\ engine.initPending > 0
    /\ \E outcome \in ListenOutcomes(World) :
          Becomes(Did(EngineInitSettle(World, outcome), "initDone"))
    /\ UNCHANGED now

EngineStop ==
    /\ ~engine.stopPending
    /\ Becomes([Did(EngineStopCall(World), "stop")
                   EXCEPT !.ghost.stoppedWith = hooks.messageBatch])
    /\ UNCHANGED now

EngineStopDone ==
    /\ engine.stopPending
    /\ Becomes(Did(EngineStopSettle(World), "stopDone"))
    /\ UNCHANGED now

\* time passes between two callbacks
Advance ==
    /\ ghost.advances < MaxAdvances
    /\ \E d \in ClockSteps : now' = now + d
    /\ ghost' = [ghost EXCEPT !.advances = @ + 1, !.lastOp = "advance",
                              !.sweptFrom = <<>>, !.stoppedWith = <<>>,
                              !.threw = 0, !.recorded = 0, !.raised = FALSE]
    /\ UNCHANGED <<hooks, collector, engine, loop>>

LifeCycle ==
    \/ EngineInit
    \/ EngineInitDone
    \/ EngineStop
    \/ EngineStopDone

\* The engine under send and receive traffic of two nodes: batching, flush
\* timers, sweeps and the life cycle.
Next ==
    \/ OnSend(TwoNodes, {"m1"})
    \/ OnReceive(TwoNodes, {"m1"})
    \/ FlushTimerFires
    \/ CleanupTimerFires
    \/ LifeCycle

Spec == Init /\ [][Next]_vars

\* The batcher under traffic of one node, with the event loop's promise that
\* a scheduled timeout fires.
FairNext ==
    \/ OnSend(OneNode, {"m1"})
    \/ OnReceive(OneNode, {"m1"})
    \/ FlushTimerFires
    \/ LifeCycle

FairSpec == Init /\ [][FairNext]_vars /\ WF_vars(FlushTimerFires)

\* The same with the rate-calculation tick of MetricsCollector.start().
RateNext ==
    \/ OnSend(RateNodes, {"m1"})
    \/ OnReceive(OneNode, {"m1"})
    \/ FlushTimerFires
    \/ CleanupTimerFires
    \/ CollectTimerFires
    \/ LifeCycle

SpecRate == Init /\ [][RateNext]_vars

\* The rate tick of an engine constructed with a collection interval.
OptionsNext ==
    \/ OnSend(OneNode, {"m1"})
    \/ FlushTimerFires
    \/ CollectTimerFires
    \/ LifeCycle

SpecOptions == InitOptions /\ [][OptionsNext]_vars

\* the engine after `await init(RED)` with the server listening, before any
\* event
Running(batchSize) ==
    /\ hooks = [isInitialized |-> TRUE,
                updateInterval |-> TRUE,
                cleanupTimer |-> TRUE,
                messageStartTimes |-> <<>>,
                registeredHooks |-> 3,
                messageBatch |-> <<>>,
                batchTimer |-> 0,
                options |-> [batchSize |-> batchSize]]
    /\ collector = [messagesIncomingTotal |-> EmptyMap,
                    messagesOutgoingTotal |-> EmptyMap,
                    messagesTotal |-> EmptyMap,
                    messageCounters |-> EmptyMap,
                    messagesIncomingPerSecond |-> EmptyMap,
                    messagesOutgoingPerSecond |-> EmptyMap,
                    incomingMessageCounters |-> EmptyMap,
                    outgoingMessageCounters |-> EmptyMap,
                    lastIncomingMessageCounts |-> EmptyMap,
                    lastOutgoingMessageCounts |-> EmptyMap,
                    flowsTotal |-> 0,
                    flowsActive |-> 0,
                    nodesTotal |-> EmptyMap,
                    nodesActive |-> EmptyMap,
                    errorsTotal |-> EmptyMap,
                    nodeExecutionTime |-> EmptyMap,
                    collectInterval |-> TRUE,
                    isCollecting |-> TRUE,
                    options |-> [collectInterval |-> DefaultCollectInterval]]
    /\ engine = [isInitialized |-> TRUE, isServerRunning |-> TRUE,
                 initPending |-> 0, stopPending |-> FALSE]
    /\ loop = [timeouts |-> <<>>,
               collectPeriod |-> TickPeriod,
               intervals |-> [k \in {"cleanup", "update", "collect"} |-> 1],
               onSend |-> 1, onReceive |-> 1, onComplete |-> 1, listeners |-> 1,
               globalMetrics |-> 0, isServerRunning |-> FALSE,
               instances |-> <<>>, created |-> 0, nodes |-> 0]
    /\ now = 1
    /\ ghost = [lastOp |-> "initDone", enqueued |-> 0, applied |-> <<>>, dropped |-> {},
                flushes |-> 0, advances |-> 0, sweptFrom |-> <<>>,
                stoppedWith |-> <<>>,
                calls |-> EmptyMap,
                begun |-> EmptyMap, cleared |-> FALSE, completes |-> 0,
                lastComplete |-> NoComplete,
                threw |-> 0, recorded |-> 0, escaped |-> FALSE, nulls |-> 0,
                raised |-> FALSE, rebegun |-> 0,
                handled |-> EmptyMap, rateSum |-> EmptyMap]

InitRunning == Running(Number(BatchSize))

\* values of options.batchSize that are a batch size
BatchSizes == 1..MaxBatchSize

\* the running engine, constructed with any of these
InitBatch == \E b \in BatchSizes : Running(Number(b))

\* The batcher of an engine constructed with a batch size, under traffic of
\* one node, with stop().
BatchNext ==
    \/ OnSend(OneNode, {"m1"})
    \/ OnReceive(OneNode, {"m1"})
    \/ FlushTimerFires
    \/ EngineStop
    \/ EngineStopDone

SpecBatch == InitBatch /\ [][BatchNext]_vars

\* Send events of one node, completion events with and without a message id,
\* the 'flows:stopped' event, sweeps and the clock.
TimingNext ==
    \/ OnSend(OneNode, {"m1"})
    \/ OnComplete(OneNode, {"m1", Undefined}, {NoError})
    \/ FlowsStopped
    \/ FlushTimerFires
    \/ CleanupTimerFires
    \/ Advance

SpecTiming == InitRunning /\ [][TimingNext]_vars

\* descriptors with and without fields
PartialNodes ==
    { [id |-> "n1", type |-> "inject", z |-> "f1"],
      [id |-> "n1", type |-> Undefined, z |-> "f1"],
      NoDescriptor }

\* completeEvent.error / event.error: none, one with a name, one without
Errors ==
    { NoError,
      [present |-> TRUE, name |-> "TypeError"],
      [present |-> TRUE, name |-> Undefined] }

\* what the host may pass to the onSend hooks: an array of one event, an
\* array that holds null, and null or another value that is no array
SendPayloads ==
    { [isArray |-> TRUE, items |-> <<Event("send", node, "m1", NoError)>>] :
          node \in PartialNodes }
    \cup { [isArray |-> TRUE,
            items |-> <<NullEvent("send"), Event("send", NoDescriptor, "m1", NoError)>>],
           [isArray |-> FALSE, items |-> <<>>] }

ErrorEvents ==
    { Event(kind, node, Undefined, error) :
          kind \in {"nodeError", "flowError"}, node \in {NoDescriptor}, error \in Errors }
    \cup { NullEvent("nodeError"), NullEvent("flowError") }

\* The callbacks under well-formed and malformed payloads.
ErrorsNext ==
    \/ OnSendPayload(SendPayloads)
    \/ OnNull({"receive", "complete"})
    \/ OnError(ErrorEvents)
    \/ FlushTimerFires

SpecErrors == InitRunning /\ [][ErrorsNext]_vars

\* The handlers under events whose descriptor lacks fields, and completion
\* events with and without an error.
CompleteNext ==
    \/ OnSend(PartialNodes \ OneNode, {"m1"})
    \/ OnReceive({NoDescriptor}, {"m1"})
    \/ OnComplete(OneNode \cup {NoDescriptor}, {"m1"}, Errors)
    \/ OnError({Event("nodeError", NoDescriptor, Undefined, NoError)})

SpecComplete == InitRunning /\ [][CompleteNext]_vars

\* durations in seconds a caller passes: negative, zero, positive
Durations == {Seconds(ms) : ms \in {-1, 0, 1}}

\* Durations recorded by completions under a wall clock that may be set
\* back, and by direct calls of recordNodeExecution.
DurationNext ==
    \/ OnSend(OneNode, {"m1"})
    \/ OnComplete(OneNode, {"m1"}, {NoError})
    \/ RecordNodeExecutionCalled(Durations)
    \/ Advance
    \/ ClockSetBack

SpecDuration == InitRunning /\ [][DurationNext]_vars

\* init and stop in any order, with init called again while an earlier call
\* waits for the server, under send traffic.
InitNext ==
    \/ EngineInit
    \/ EngineInitConcurrent
    \/ EngineInitDone
    \/ EngineStop
    \/ EngineStopDone
    \/ OnSend(OneNode, {"m1"})
    \/ FlushTimerFires

SpecInit == Init /\ [][InitNext]_vars

\* a node that is moved to another flow keeps its id, a node and a flow that
\* kept theirs, and a second node of the same type
InventoryNodes ==
    { [id |-> "n1", type |-> "inject", z |-> "f1"],
      [id |-> "n1", type |-> "inject", z |-> "f2"],
      [id |-> "n2", type |-> "inject", z |-> "f1"],
      [id |-> "n3", type |-> "debug", z |-> "f1"] }

\* The inventory gauges under send and receive traffic.
InventoryNext ==
    \/ OnSend(InventoryNodes, {"m1"})
    \/ OnReceive(InventoryNodes, {"m1"})
    \/ FlushTimerFires
    \/ UpdateTimerFires

SpecInventory == InitRunning /\ [][InventoryNext]_vars

\* values of nodeId, nodeType and flowId without the delimiter: the empty
\* string and one with the delimiter of the timing key
KeyFields == {"", "a_b"}

\* The counter keys of any three such fields, with the rate tick and the
\* inventory update that split them.
KeysNext ==
    \/ RecordMessageCalled(KeyFields)
    \/ CollectTimerFires
    \/ UpdateTimerFires

SpecKeys == InitRunning /\ [][KeysNext]_vars

\* The running engine under traffic of one node, with the flush timeouts and
\* the rate tick in any order.
TickNext ==
    \/ OnSend(OneNode, {"m1"})
    \/ OnReceive(OneNode, {"m1"})
    \/ FlushTimerFires
    \/ CollectTimerFires

SpecTick == InitRunning /\ [][TickNext]_vars

\* values of options.batchSize that are no batch size: zero, a negative
\* number, a value that is no number
InvalidBatchSizes == {Number(0), Number(-1), NotANumber}

InitConfig ==
    \E b \in InvalidBatchSizes : ConstructedWith(DefaultCollectInterval, b)

\* An engine constructed with such a value, initialised, under send events.
ConfigNext ==
    \/ EngineInit
    \/ EngineInitDone
    \/ OnSend(OneNode, {"m1"})
    \/ FlushTimerFiresBounded

SpecConfig == InitConfig /\ [][ConfigNext]_vars

\* Send, receive and completion events of one node and one message, with
\* time passing between them.
BeginNext ==
    \/ OnSend(OneNode, {"m1"})
    \/ OnReceive(OneNode, {"m1"})
    \/ OnComplete(OneNode, {"m1"}, {NoError})
    \/ Advance

SpecBegin == InitRunning /\ [][BeginNext]_vars

\* Events of one node for which the host supplies no message id, with the
\* sweep, the 'flows:stopped' event and the clock.
NoIdNext ==
    \/ OnSend(OneNode, {Undefined})
    \/ OnReceive(OneNode, {Undefined})
    \/ OnComplete(OneNode, {Undefined}, {NoError})
    \/ CleanupTimerFires
    \/ FlowsStopped
    \/ Advance

SpecNoId == InitRunning /\ [][NoIdNext]_vars

\* init and stop in any order, init after stop included, under events of one
\* node.
ReinitNext ==
    \/ EngineInit
    \/ EngineInitAgain
    \/ EngineInitDone
    \/ EngineStop
    \/ EngineStopDone
    \/ OnSend(OneNode, {"m1"})
    \/ OnReceive(OneNode, {"m1"})
    \/ OnComplete(OneNode, {"m1"}, {NoError})
    \/ FlushTimerFires

SpecReinit == Init /\ [][ReinitNext]_vars

(* ---------------- the single-counter variant (lib/) ---------------- *)

\* MetricsCollector.recordMessage of lib/metrics-collector.js: one counter
\* for both directions
RecordMessage(w, nodeId, nodeType, flowId) ==
    LET key == CounterKey(nodeId, nodeType, flowId)
    IN [w EXCEPT
          !.collector.messagesTotal =
              MapSet(@, <<nodeId, nodeType, flowId>>,
                     GetOrZero(@, <<nodeId, nodeType, flowId>>) + 1),
          !.collector.messageCounters = MapSet(@, key, GetOrZero(@, key) + 1)]

\* the callback of batch.forEach in processBatch of lib/node-red-hooks.js:
\* the type of the record is not looked at
LibApplyRecord(w, r) ==
    Applied(RecordMessage(w, r.nodeId, r.nodeType, r.flowId), r)

RECURSIVE LibApplyBatch(_, _)
LibApplyBatch(w, batch) ==
    IF batch = <<>> THEN w
    ELSE LibApplyBatch(LibApplyRecord(w, Head(batch)), Tail(batch))

\* processBatch of lib/node-red-hooks.js
LibProcessBatch(w) ==
    IF Len(w.hooks.messageBatch) = 0 THEN w
    ELSE LET sp == SpliceFront(w.hooks.messageBatch, DeleteCount(w.hooks.options.batchSize))
             w1 == [w EXCEPT !.hooks.messageBatch = sp.left,
                             !.ghost.flushes = @ + 1]
             w2 == LibApplyBatch(w1, sp.taken)
         IN IF Len(w2.hooks.messageBatch) > 0
              THEN ArmBatchTimer(w2)
              ELSE [w2 EXCEPT !.hooks.batchTimer = 0]

\* addToBatch of lib/node-red-hooks.js
LibAddToBatch(w, nodeId, nodeType, flowId, type) ==
    LET rec == [nodeId |-> nodeId, nodeType |-> nodeType, flowId |-> flowId,
                type |-> type, seq |-> w.ghost.enqueued + 1]
        w1 == [w EXCEPT !.hooks.messageBatch = Append(@, rec),
                        !.ghost.enqueued = @ + 1,
                        !.ghost.handled =
                            MapSet(@, <<type, nodeId, nodeType, flowId>>,
                                   GetOrZero(@, <<type, nodeId, nodeType, flowId>>) + 1)]
    IN IF AtLeast(Len(w1.hooks.messageBatch), w1.hooks.options.batchSize)
         THEN LibProcessBatch(w1)
       ELSE IF w1.hooks.batchTimer = 0
         THEN ArmBatchTimer(w1)
       ELSE w1

\* handleSendEvent of lib/node-red-hooks.js: the message is recorded, and a
\* record of it is batched as well
LibHandleSendEvent(w, sendEvent, t, generated) ==
    IF ThrowsOnRead(sendEvent) THEN CaughtOutside(w) ELSE
    LET node == sendEvent.node
        nodeId == OrElse(node.id, "unknown")
        nodeType == OrElse(node.type, "unknown")
        flowId == OrElse(node.z, "unknown")
        messageId == OrElse(sendEvent.msgid, generated)
        w1 == RecordMessage(w, nodeId, nodeType, flowId)
        w2 == LibAddToBatch(w1, nodeId, nodeType, flowId, "send")
        timingKey == TimingKey(nodeId, messageId)
    IN [w2 EXCEPT !.hooks.messageStartTimes = SetStart(@, timingKey, t),
                  !.ghost.begun = MapSet(@, <<nodeId, messageId>>, t)]

\* handleReceiveEvent of lib/node-red-hooks.js
LibHandleReceiveEvent(w, receiveEvent, t, generated) ==
    IF ThrowsOnRead(receiveEvent) THEN CaughtOutside(w) ELSE
    LET node == receiveEvent.node
        nodeId == OrElse(node.id, "unknown")
        nodeType == OrElse(node.type, "unknown")
        flowId == OrElse(node.z, "unknown")
        w1 == LibAddToBatch(w, nodeId, nodeType, flowId, "receive")
        messageId == OrElse(receiveEvent.msgid, generated)
        timingKey == TimingKey(nodeId, messageId)
    IN [w1 EXCEPT !.hooks.messageStartTimes = SetStart(@, timingKey, t),
                  !.ghost.begun = MapSet(@, <<nodeId, messageId>>, t)]

\* handleCompleteEvent of lib/node-red-hooks.js: a record of the completion
\* is batched before the start timestamp is looked up
LibHandleCompleteEvent(w, completeEvent, t) ==
    IF ThrowsOnRead(completeEvent) THEN CaughtOutside(w) ELSE
    LET node == completeEvent.node
        nodeId == OrElse(node.id, "unknown")
        nodeType == OrElse(node.type, "unknown")
        flowId == OrElse(node.z, "unknown")
        messageId == OrElse(completeEvent.msgid, "unknown")
        w1 == LibAddToBatch(w, nodeId, nodeType, flowId, "complete")
    IN CompleteBody(w1, nodeId, nodeType, flowId, messageId, completeEvent.error, t)

\* the host runs the onSend hook of an engine initialised once
LibOnSend ==
    /\ loop.onSend = 1
    /\ CanEnqueue(1)
    /\ \E node \in OneNode, generated \in GeneratedIds :
          Becomes(Did(LibHandleSendEvent(World, Event("send", node, "m1", NoError),
                                         now, generated), "onSend"))
    /\ UNCHANGED now

\* the host runs its onReceive hook
LibOnReceive ==
    /\ loop.onReceive = 1
    /\ CanEnqueue(1)
    /\ \E node \in OneNode, generated \in GeneratedIds :
          Becomes(Did(LibHandleReceiveEvent(World, Event("receive", node, "m1", NoError),
                                            now, generated), "onReceive"))
    /\ UNCHANGED now

\* the host runs its onComplete hook
LibOnComplete ==
    /\ loop.onComplete = 1
    /\ CanEnqueue(1)
    /\ ghost.completes < MaxCompletes
    /\ \E node \in OneNode :
          Becomes(Did(LibHandleCompleteEvent(World, Event("complete", node, "m1", NoError),
                                             now), "onComplete"))
    /\ UNCHANGED now

\* the oldest scheduled flush timeout fires: () => this.processBatch()
LibFlushTimerFires ==
    /\ loop.timeouts # <<>>
    /\ Becomes(Did(LibProcessBatch([World EXCEPT !.loop.timeouts = Tail(@)]), "flushTimer"))
    /\ UNCHANGED now

\* The running engine of the single-counter variant, constructed with any
\* batch size, under events of one node and one message.
LibNext ==
    \/ LibOnSend
    \/ LibOnReceive
    \/ LibOnComplete
    \/ LibFlushTimerFires
    \/ Advance

SpecLib == InitBatch /\ [][LibNext]_vars

(* ---------------- the flow-metrics node module ---------------- *)

\* new NodeRedFlowMetrics({...}): the engine fields of a fresh instance
NewEngine ==
    [isInitialized |-> FALSE, isServerRunning |-> FALSE,
     initPending |-> 0, stopPending |-> FALSE]

\* the world in which a method of the instance e of the node module runs
EngineOf(e) == [World EXCEPT !.engine = e]

\* FlowMetricsNode(config): a node of type flow-metrics is created. The
\* instance is constructed and init(RED) called only if globalMetrics is
\* null; the node's monitor interval is started either way.
FlowMetricsNode(l) ==
    LET l1 == IF l.globalMetrics = 0
                THEN [l EXCEPT
                        !.instances = Append(@, EngineInitCall(EngineOf(NewEngine)).engine),
                        !.globalMetrics = Len(l.instances) + 1]
                ELSE l
    IN [l1 EXCEPT !.created = @ + 1, !.nodes = @ + 1]

\* globalMetrics.init(RED).then(...).catch(...) of the instance i: the
\* module flag is set when init resolves
InitSettled(l, i, outcome) ==
    LET l1 == [l EXCEPT !.instances[i] =
                            EngineInitSettle(EngineOf(l.instances[i]), outcome).engine]
    IN IF outcome = "error" THEN l1
       ELSE [l1 EXCEPT !.isServerRunning = TRUE]

\* node.on('close'): the monitor interval of the node is cleared
NodeClose(l) == [l EXCEPT !.nodes = @ - 1]

\* the 'runtime-event' listener with the event id 'runtime-stopped': stop()
\* is called and not awaited, the reference and the flag are reset
RuntimeStopped(l) ==
    IF l.globalMetrics # 0
      THEN [l EXCEPT !.instances[l.globalMetrics] =
                         EngineStopCall(EngineOf(l.instances[l.globalMetrics])).engine,
                     !.globalMetrics = 0,
                     !.isServerRunning = FALSE]
      ELSE l

\* the host creates a flow-metrics node
NodeCreated ==
    /\ loop.created < MaxNodes
    /\ loop.globalMetrics = 0 => Len(loop.instances) < MaxInstances
    /\ loop' = FlowMetricsNode(loop)
    /\ UNCHANGED <<hooks, collector, engine, now, ghost>>

\* the listen of an instance that waits in init(RED) succeeds or fails
NodeInitDone ==
    /\ \E i \in DOMAIN loop.instances :
          /\ loop.instances[i].initPending > 0
          /\ \E outcome \in ListenOutcomes(EngineOf(loop.instances[i])) :
                loop' = InitSettled(loop, i, outcome)
    /\ UNCHANGED <<hooks, collector, engine, now, ghost>>

\* the host closes a flow-metrics node
NodeClosed ==
    /\ loop.nodes > 0
    /\ loop' = NodeClose(loop)
    /\ UNCHANGED <<hooks, collector, engine, now, ghost>>

\* the host emits the runtime-event 'runtime-stopped'
RuntimeStoppedEvent ==
    /\ loop.globalMetrics # 0
    /\ loop' = RuntimeStopped(loop)
    /\ UNCHANGED <<hooks, collector, engine, now, ghost>>

\* the rest of stop() of an instance, once its server is closed
NodeStopDone ==
    /\ \E i \in DOMAIN loop.instances :
          /\ loop.instances[i].stopPending
          /\ loop' = [loop EXCEPT !.instances[i] =
                                      EngineStopSettle(EngineOf(loop.instances[i])).engine]
    /\ UNCHANGED <<hooks, collector, engine, now, ghost>>

\* The node module in a host that creates and closes flow-metrics nodes and
\* stops its runtime, in any order.
NodeNext ==
    \/ NodeCreated
    \/ NodeInitDone
    \/ NodeClosed
    \/ RuntimeStoppedEvent
    \/ NodeStopDone

SpecNode == Init /\ [][NodeNext]_vars

(* ---------------- NodeRedFlowMetrics.recordCustomMetric ---------------- *)

\* the methods the class MetricsCollector defines
CollectorMethods ==
    {"initializeMetrics", "recordMessage", "recordError", "recordNodeExecution",
     "updateMemoryUsage", "updateRuntimeInfo", "calculateMessagesPerSecond",
     "calculateRealFlowMetrics", "calculateRealNodeMetrics",
     "updateMetricsFromRealData", "start", "stop", "updateSystemMetrics",
     "getMetrics", "getRegistry"}

\* this.metricsCollector[method](...): calling a property the object does
\* not have throws a TypeError; the collector always exists, so the guard
\* of recordCustomMetric is the engine's isInitialized
RecordCustomMetric(w, nodeId, nodeType, flowId, metricType) ==
    IF w.engine.isInitialized
      THEN IF "recordCustomMetric" \in CollectorMethods
             THEN w
             ELSE [w EXCEPT !.ghost.raised = TRUE]
      ELSE w

\* a function node calls metrics.recordCustomMetric(node.id, node.type,
\* msg.flowId || 'unknown', 'message' or 'error')
RecordCustomMetricCalled ==
    /\ ghost.nulls < MaxNulls
    /\ \E node \in OneNode, metricType \in {"message", "error"} :
          Becomes([Did(RecordCustomMetric(World, node.id, node.type, "unknown", metricType),
                       "recordCustomMetric")
                     EXCEPT !.ghost.nulls = @ + 1])
    /\ UNCHANGED now

\* init and stop in any order under send traffic, with calls of
\* recordCustomMetric at any time.
CustomNext ==
    \/ EngineInit
    \/ EngineInitDone
    \/ EngineStop
    \/ EngineStopDone
    \/ OnSend(OneNode, {"m1"})
    \/ FlushTimerFires
    \/ RecordCustomMetricCalled

SpecCustom == Init /\ [][CustomNext]_vars

(* ---------------- timing keys of ids that hold the separator ---------------- *)

\* node descriptors whose ids the host chose freely: one id is a prefix of
\* the other, up to a '_'
UnderscoreNodes ==
    { [id |-> "n1", type |-> "inject", z |-> "f1"],
      [id |-> "n1_msg", type |-> "inject", z |-> "f1"] }

\* msg._msgid values with a '_' in them, as the ids generateMessageId makes
UnderscoreIds == {"msg_1_a", "1_a"}

\* Send and completion events of these nodes and messages, with time passing
\* between them.
UnderscoreNext ==
    \/ OnSend(UnderscoreNodes, UnderscoreIds)
    \/ OnComplete(UnderscoreNodes, UnderscoreIds, {NoError})
    \/ Advance

SpecUnderscore == InitRunning /\ [][UnderscoreNext]_vars

(* ---------------- the sweep on every table ---------------- *)

TimingKeys == {TimingKey("n1", m) : m \in {"m1", "m2"} \cup GeneratedIds}

\* Date.now() of the events that wrote the entries
StartTimes == {1, 2, 3}

\* Date.now() of the sweep
SweepTimes == {3, 60002, 60003}

\* every content of messageStartTimes over TimingKeys: one entry per key, in
\* any insertion order, written at any of StartTimes
TimingTables ==
    {t \in UNION {[1..n -> [key : TimingKeys, startTime : StartTimes]] :
                    n \in 0..Cardinality(TimingKeys)} :
        \A i, j \in 1..Len(t) : i # j => t[i].key # t[j].key}

\* the constructed engine, with a timing table filled by earlier events
InitSweep ==
    /\ \E t \in TimingTables :
          hooks = [isInitialized |-> TRUE,
                   updateInterval |-> TRUE,
                   cleanupTimer |-> TRUE,
                   messageStartTimes |-> t,
                   registeredHooks |-> 3,
                   messageBatch |-> <<>>,
                   batchTimer |-> 0,
                options |-> [batchSize |-> Number(BatchSize)]]
    /\ collector = [messagesIncomingTotal |-> EmptyMap,
                    messagesOutgoingTotal |-> EmptyMap,
                    messagesTotal |-> EmptyMap,
                    messageCounters |-> EmptyMap,
                    messagesIncomingPerSecond |-> EmptyMap,
                    messagesOutgoingPerSecond |-> EmptyMap,
                    incomingMessageCounters |-> EmptyMap,
                    outgoingMessageCounters |-> EmptyMap,
                    lastIncomingMessageCounts |-> EmptyMap,
                    lastOutgoingMessageCounts |-> EmptyMap,
                    flowsTotal |-> 0,
                    flowsActive |-> 0,
                    nodesTotal |-> EmptyMap,
                    nodesActive |-> EmptyMap,
                    errorsTotal |-> EmptyMap,
                    nodeExecutionTime |-> EmptyMap,
                    collectInterval |-> TRUE,
                    isCollecting |-> TRUE,
                    options |-> [collectInterval |-> DefaultCollectInterval]]
    /\ engine = [isInitialized |-> TRUE, isServerRunning |-> TRUE,
                 initPending |-> 0, stopPending |-> FALSE]
    /\ loop = [timeouts |-> <<>>,
               collectPeriod |-> TickPeriod,
               intervals |-> [k \in {"cleanup", "update", "collect"} |-> 1],
               onSend |-> 1, onReceive |-> 1, onComplete |-> 1, listeners |-> 1,
               globalMetrics |-> 0, isServerRunning |-> FALSE,
               instances |-> <<>>, created |-> 0, nodes |-> 0]
    /\ now \in SweepTimes
    /\ ghost = [lastOp |-> "initDone", enqueued |-> 0, applied |-> <<>>, dropped |-> {},
                flushes |-> 0, advances |-> 0, sweptFrom |-> <<>>,
                stoppedWith |-> <<>>,
                calls |-> EmptyMap,
                begun |-> EmptyMap, cleared |-> FALSE, completes |-> 0, lastComplete |-> NoComplete,
                threw |-> 0, recorded |-> 0, escaped |-> FALSE, nulls |-> 0,
                raised |-> FALSE, rebegun |-> 0,
                handled |-> EmptyMap, rateSum |-> EmptyMap]

SweepNext ==
    \/ CleanupTimerFires
    \/ Advance

SpecSweep == InitSweep /\ [][SweepNext]_vars

(* ======================= the claims ======================= *)

IncomingTotal(key) == GetOrZero(collector.incomingMessageCounters, key)

OutgoingTotal(key) == GetOrZero(collector.outgoingMessageCounters, key)

RECURSIVE SumOver(_, _)
SumOver(f, S) ==
    IF S = {} THEN 0
    ELSE LET x == CHOOSE x \in S : TRUE IN f[x] + SumOver(f, S \ {x})

\* how many times the record* method of that direction was called with
\* arguments that make up key
CallsFor(type, key) ==
    SumOver(ghost.calls,
            {c \in DOMAIN ghost.calls :
                c[1] = type /\ CounterKey(c[2], c[3], c[4]) = key})

SeenKeys ==
    (DOMAIN collector.incomingMessageCounters)
        \cup (DOMAIN collector.outgoingMessageCounters)
        \cup {CounterKey(c[2], c[3], c[4]) : c \in DOMAIN ghost.calls}

\* C1: for every key the incoming total is the number of
\* recordIncomingMessage calls for it and the outgoing total the number of
\* recordOutgoingMessage calls; both are >= 0, and no step (a flush, a rate
\* tick, a sweep, stop, init) makes a total smaller or removes its key.
C1_TotalsCountCalls ==
    /\ [](\A k \in SeenKeys :
            /\ IncomingTotal(k) = CallsFor("receive", k)
            /\ OutgoingTotal(k) = CallsFor("send", k)
            /\ IncomingTotal(k) >= 0
            /\ OutgoingTotal(k) >= 0)
    /\ [][/\ \A k \in DOMAIN collector.incomingMessageCounters :
               /\ k \in DOMAIN collector'.incomingMessageCounters
               /\ collector'.incomingMessageCounters[k]
                     >= collector.incomingMessageCounters[k]
          /\ \A k \in DOMAIN collector.outgoingMessageCounters :
               /\ k \in DOMAIN collector'.outgoingMessageCounters
               /\ collector'.outgoingMessageCounters[k]
                     >= collector.outgoingMessageCounters[k]]_vars

\* C1 witness: after a rate tick, two keys have been counted, one of them
\* twice in one direction, and the engine has flushed more than once
C1_Witness ==
    /\ ghost.lastOp = "rateTick"
    /\ ghost.flushes >= 2
    /\ \E k1, k2 \in SeenKeys :
          k1 # k2 /\ OutgoingTotal(k1) >= 2 /\ IncomingTotal(k2) + OutgoingTotal(k2) >= 1

\* C2: at most one flush timeout is scheduled at any time.
C2_AtMostOneFlushTimer == Len(loop.timeouts) <= 1

\* an addToBatch call made by one handler for one event
OneEnqueue ==
    /\ ghost'.lastOp \in {"onSend", "onReceive"}
    /\ ghost'.enqueued = ghost.enqueued + 1

\* C3: from an empty queue with no timer armed, the batchSize-th addToBatch
\* flushes exactly once, inside the call, and leaves no flush timeout
\* scheduled.  (batchSize - 1 enqueues from the empty queue leave
\* batchSize - 1 records and the one timeout the first of them armed.)
C3_SyncFlushLeavesNoTimer ==
    [][(/\ OneEnqueue
        /\ Len(hooks.messageBatch) = BatchSize - 1
        /\ loop.timeouts = IF BatchSize = 1 THEN <<>> ELSE <<hooks.batchTimer>>)
       => (/\ ghost'.flushes = ghost.flushes + 1
           /\ hooks'.messageBatch = <<>>
           /\ loop'.timeouts = <<>>)]_vars

\* C4: between init and stop, a non-empty queue has a flush timeout scheduled,
\* and batchTimer is the handle of a scheduled timeout.
C4_BacklogHasTimer ==
    (hooks.isInitialized /\ hooks.messageBatch # <<>>)
        => (hooks.batchTimer # 0 /\ hooks.batchTimer \in Range(loop.timeouts))

\* C4 witness: a backlog after an enqueue, while an older timeout that a
\* size-triggered flush left behind is still scheduled
C4_Witness ==
    /\ hooks.isInitialized
    /\ ghost.lastOp \in {"onSend", "onReceive"}
    /\ hooks.messageBatch # <<>>
    /\ Len(loop.timeouts) >= 2

\* C5: every enqueued record is eventually passed to a record* method, unless
\* stop() intervenes: whenever records wait in the queue, all of them
\* eventually leave it, and a record leaves the queue only by being passed
\* to a record* method, or in stop().
C5_EveryRecordApplied ==
    /\ (hooks.messageBatch # <<>>) ~> (hooks.messageBatch = <<>>)
    /\ [][\A r \in Range(hooks.messageBatch) :
             r \in Range(hooks'.messageBatch)
                \/ r.seq \in Range(ghost'.applied)
                \/ ghost'.lastOp = "stop"]_vars

\* C5 witness: a flush timeout has fired and every record enqueued so far,
\* fewer than a full batch of them at the end, was applied, none discarded
C5_Witness ==
    /\ ghost.lastOp = "flushTimer"
    /\ ghost.enqueued % BatchSize # 0
    /\ Len(ghost.applied) = ghost.enqueued
    /\ ghost.dropped = {}
    /\ loop.timeouts = <<>>

\* C6: records reach the registry in the order they were enqueued, within a
\* flush and across flushes.
C6_AppliedInEnqueueOrder ==
    \A i, j \in 1..Len(ghost.applied) : i < j => ghost.applied[i] < ghost.applied[j]

\* C6 witness: three records applied by two flushes, one of them of a full batch
C6_Witness ==
    /\ Len(ghost.applied) >= 3
    /\ ghost.flushes >= 2
    /\ BatchSize >= 2

\* C7: once the engine's stop() has completed, no interval and no flush
\* timeout is scheduled.
C7_NoTimerAfterStop ==
    ghost.lastOp = "stopDone"
        => (loop.timeouts = <<>> /\ \A k \in DOMAIN loop.intervals : loop.intervals[k] = 0)

\* C8: stop() cancels the periodic timers and the flush timeout it holds, then
\* flushes, then clears the timing table and the queue: when it returns,
\* every record that was in the queue has been applied, none was discarded,
\* and the timeout batchTimer referred to is no longer scheduled.
C8_StopFlushesEverything ==
    [][EngineStop
         => (/\ \A r \in Range(hooks.messageBatch) : r.seq \in Range(ghost'.applied)
             /\ ghost'.dropped = {}
             /\ Len(ghost'.applied) = ghost'.enqueued
             /\ hooks.batchTimer # 0 => hooks.batchTimer \notin Range(loop'.timeouts)
             /\ loop'.intervals["update"] = 0
             /\ loop'.intervals["cleanup"] = 0
             /\ ~hooks'.updateInterval /\ ~hooks'.cleanupTimer /\ hooks'.batchTimer = 0
             /\ hooks'.messageBatch = <<>>
             /\ hooks'.messageStartTimes = <<>>)]_vars

\* C8 witness: stop() has just returned; it found records in the queue
C8_Witness ==
    /\ ghost.lastOp = "stop"
    /\ ghost.stoppedWith # <<>>
    /\ \A r \in Range(ghost.stoppedWith) : r.seq \in Range(ghost.applied)

Age(e) == now - e.startTime

\* C9: right after a sweep the table has at most maxTimingEntries entries and
\* none of them is older than maxAge.
C9_SweepBounds ==
    ghost.lastOp = "cleanup"
        => (/\ Len(hooks.messageStartTimes) <= MaxTimingEntries
            /\ \A e \in Range(hooks.messageStartTimes) : Age(e) <= maxAge)

\* C9 witness: the sweep found too many entries, one of them too old, and
\* left some
C9_Witness ==
    /\ ghost.lastOp = "cleanup"
    /\ Len(ghost.sweptFrom) > MaxTimingEntries
    /\ \E e \in Range(ghost.sweptFrom) : Age(e) > maxAge
    /\ hooks.messageStartTimes # <<>>

\* C10: a sweep of N > maxTimingEntries entries, none older than maxAge,
\* leaves exactly maxTimingEntries of them, and no evicted entry started
\* later than a surviving one.
C10_EvictsOldestFirst ==
    (/\ ghost.lastOp = "cleanup"
     /\ Len(ghost.sweptFrom) > MaxTimingEntries
     /\ \A e \in Range(ghost.sweptFrom) : Age(e) <= maxAge)
        => (/\ Len(hooks.messageStartTimes) = MaxTimingEntries
            /\ Range(hooks.messageStartTimes) \subseteq Range(ghost.sweptFrom)
            /\ \A kept \in Range(hooks.messageStartTimes) :
                 \A gone \in Range(ghost.sweptFrom) \ Range(hooks.messageStartTimes) :
                    kept.startTime >= gone.startTime)

\* C10 witness: such a sweep of a table whose first entry is not its oldest
C10_Witness ==
    /\ ghost.lastOp = "cleanup"
    /\ Len(ghost.sweptFrom) > MaxTimingEntries
    /\ \A e \in Range(ghost.sweptFrom) : Age(e) <= maxAge
    /\ \E i \in 2..Len(ghost.sweptFrom) :
          ghost.sweptFrom[i].startTime < ghost.sweptFrom[1].startTime
    /\ Len(hooks.messageStartTimes) = MaxTimingEntries

\* C11: a completion event finds no start timestamp exactly when no send or
\* receive event for the same (nodeId, messageId) came before it, or the
\* entry of that event was consumed by an earlier completion, removed by a
\* sweep or discarded by stop(); nothing else makes a begun pair unfindable.
C11_NotFoundIffNotBegun ==
    ghost.lastOp = "onComplete"
        => (ghost.lastComplete.found <=> ghost.lastComplete.begun)

\* the one send event and the one completion event of a run had the same ids,
\* the send came first, nothing else touched the timing table in between,
\* and the queue is flushed
SendThenComplete ==
    LET lc == ghost.lastComplete
    IN /\ ghost.enqueued = 1
       /\ ghost.completes = 1
       /\ lc.begun
       /\ ~ghost.cleared
       /\ hooks.messageBatch = <<>>
       /\ ghost.calls = (<<"send", lc.nodeId, lc.nodeType, lc.flowId>> :> 1)

\* C12: a send event and then a completion event for the same ids, and no
\* other event, give, once the batch is flushed: outgoing total 1 for the
\* key, no incoming total, one duration observation for the key's labels of
\* (completion time - send time) / 1000 seconds, and no timing entry for the
\* pair.
C12_SendThenComplete ==
    LET lc == ghost.lastComplete
        key == CounterKey(lc.nodeId, lc.nodeType, lc.flowId)
    IN SendThenComplete
        => (/\ collector.outgoingMessageCounters = (key :> 1)
            /\ collector.incomingMessageCounters = EmptyMap
            /\ collector.nodeExecutionTime
                  = (<<lc.nodeId, lc.nodeType, lc.flowId>>
                        :> <<[num |-> lc.t - lc.begunAt, den |-> 1000]>>)
            /\ ~HasEntry(hooks.messageStartTimes, TimingKey(lc.nodeId, lc.messageId)))

\* C12 witness: the scenario, with the completion later than the send and
\* the flush done by the timer after the completion
C12_Witness ==
    /\ SendThenComplete
    /\ ghost.lastOp = "flushTimer"
    /\ ghost.lastComplete.t > ghost.lastComplete.begunAt
    /\ ghost.lastComplete.nodeId = "n1"

\* what a tick has to write for a key counted under labels l: the rate
\* max(0, current total - previous sample) / 5 into the gauge of l, and the
\* current total into the stored sample
TickWrites(counters, lastCounts, gauge, lastCountsAfter, gaugeAfter) ==
    \A l \in {<<c[2], c[3], c[4]>> : c \in DOMAIN ghost.calls} :
        LET key == CounterKey(l[1], l[2], l[3])
        IN key \in DOMAIN counters
            => LET delta == counters[key] - GetOrZero(lastCounts, key)
               IN /\ l \in DOMAIN gaugeAfter
                  /\ gaugeAfter[l] = [num |-> IF delta > 0 THEN delta ELSE 0, den |-> 5]
                  /\ gaugeAfter[l].num >= 0
                  /\ key \in DOMAIN lastCountsAfter
                  /\ lastCountsAfter[key] = counters[key]

\* C13: a rate tick writes, for every key of the incoming (outgoing) counter
\* map, max(0, total - previous sample) / 5 into the incoming (outgoing)
\* rate gauge of that key, a key never sampled counting from 0, and stores
\* the total as the new sample.
C13_TickWritesRates ==
    [][ghost'.lastOp = "rateTick"
        => (/\ TickWrites(collector.incomingMessageCounters,
                          collector.lastIncomingMessageCounts,
                          collector.messagesIncomingPerSecond,
                          collector'.lastIncomingMessageCounts,
                          collector'.messagesIncomingPerSecond)
            /\ TickWrites(collector.outgoingMessageCounters,
                          collector.lastOutgoingMessageCounts,
                          collector.messagesOutgoingPerSecond,
                          collector'.lastOutgoingMessageCounts,
                          collector'.messagesOutgoingPerSecond))]_vars

\* C14: the rate tick is scheduled with the period options.collectInterval,
\* and every rate written is the delta divided by that interval in seconds.
C14_TickHonoursInterval ==
    /\ collector.isCollecting
          => loop.collectPeriod = collector.options.collectInterval
    /\ \A l \in DOMAIN collector.messagesOutgoingPerSecond :
          collector.messagesOutgoingPerSecond[l].den * 1000
              = collector.options.collectInterval
    /\ \A l \in DOMAIN collector.messagesIncomingPerSecond :
          collector.messagesIncomingPerSecond[l].den * 1000
              = collector.options.collectInterval

\* C15: no exception raised while a callback handles a payload of the host
\* reaches the host.
C15_NothingEscapes == ~ghost.escaped

\* the errors counted under the error type stage, over all nodes
StageErrors(errorsTotal, stage) ==
    SumOver(errorsTotal, {l \in DOMAIN errorsTotal : l[4] = stage})

\* the stage category of the handler a step ran
Stage(op) ==
    IF op = "onSend" THEN "send_processing"
    ELSE IF op = "onReceive" THEN "receive_processing"
    ELSE "complete_processing"

\* C16: every handling of a send, receive or complete event that fails with
\* an exception records exactly one error under the stage category of its
\* handler.
C16_FailureRecordsStageError ==
    [][(ghost'.lastOp \in {"onSend", "onReceive", "onComplete"} /\ ghost'.threw > 0)
        => StageErrors(collector'.errorsTotal, Stage(ghost'.lastOp))
             = StageErrors(collector.errorsTotal, Stage(ghost'.lastOp)) + ghost'.threw]_vars

\* the label sets of every instrument that carries node labels
NodeLabels ==
    {<<l[1], l[2], l[3]>> :
        l \in (DOMAIN collector.messagesIncomingTotal)
                \cup (DOMAIN collector.messagesOutgoingTotal)
                \cup (DOMAIN collector.errorsTotal)
                \cup (DOMAIN collector.nodeExecutionTime)}

\* C17: a missing id, type or z is replaced by "unknown": no batch record,
\* no label set and no counter key holds an undefined nodeId, nodeType or
\* flowId, and every counter key is built from such labels.
C17_UnknownNeverUndefined ==
    /\ \A r \in Range(hooks.messageBatch) :
          Undefined \notin {r.nodeId, r.nodeType, r.flowId}
    /\ \A l \in NodeLabels : Undefined \notin {l[1], l[2], l[3]}
    /\ \A k \in (DOMAIN collector.incomingMessageCounters)
                  \cup (DOMAIN collector.outgoingMessageCounters) :
          k \in {CounterKey(l[1], l[2], l[3]) : l \in NodeLabels}
    /\ \A c \in DOMAIN ghost.calls : Undefined \notin {c[2], c[3], c[4]}

\* C17 witness: "unknown" stands for the type a send event lacked, in a
\* counter key, and for all three fields in a pending record and in an error
\* label set
C17_Witness ==
    /\ CounterKey("n1", "unknown", "f1") \in DOMAIN collector.outgoingMessageCounters
    /\ \E r \in Range(hooks.messageBatch) :
          r.nodeId = "unknown" /\ r.nodeType = "unknown" /\ r.flowId = "unknown"
    /\ \E l \in DOMAIN collector.errorsTotal :
          l[1] = "unknown" /\ l[2] = "unknown" /\ l[3] = "unknown"

\* C18: a completion event with an error records exactly one error for the
\* node's labels, under the error's name or "execution" when it has none,
\* whether or not a start timestamp was found; one without an error records
\* none.  (One handler is registered for onComplete.)
C18_CompletionErrorRecordedOnce ==
    [][(ghost'.lastOp = "onComplete" /\ ghost'.threw = 0 /\ loop.onComplete = 1)
        => LET lc == ghost'.lastComplete
               name == IF lc.error.name \in {Undefined, ""}
                         THEN "execution" ELSE lc.error.name
               labels == <<lc.nodeId, lc.nodeType, lc.flowId, name>>
           IN collector'.errorsTotal
                = IF lc.error.present
                    THEN MapSet(collector.errorsTotal, labels,
                                GetOrZero(collector.errorsTotal, labels) + 1)
                    ELSE collector.errorsTotal]_vars

\* C18 witness: a completion with an unnamed error for which no start
\* timestamp was found has been counted under "execution", after one with a
\* named error whose start timestamp was found
C18_Witness ==
    /\ ghost.lastOp = "onComplete"
    /\ ghost.lastComplete.error.present
    /\ ghost.lastComplete.error.name = Undefined
    /\ ~ghost.lastComplete.found
    /\ ghost.recorded = 1
    /\ \E l \in DOMAIN collector.errorsTotal : l[4] = "execution"
    /\ \E l \in DOMAIN collector.errorsTotal :
          l[4] = "TypeError" /\ <<l[1], l[2], l[3]>> \in DOMAIN collector.nodeExecutionTime

\* C19: recordNodeExecution rejects a negative duration: every observation
\* the histogram holds is a non-negative number.
C19_NoNegativeObservation ==
    \A l \in DOMAIN collector.nodeExecutionTime :
        \A i \in 1..Len(collector.nodeExecutionTime[l]) :
            collector.nodeExecutionTime[l][i].num >= 0

\* the registrations with the host and the timers of the event loop
Registrations == <<loop.onSend, loop.onReceive, loop.onComplete, loop.listeners>>

\* C20: init(RED) on an engine that is initialized, or whose first init is
\* still waiting for the server, registers no hook and no listener, starts
\* no timer, and does not raise, neither in the call nor when it settles.
C20_SecondInitIsNoOp ==
    /\ [][(/\ ghost'.lastOp = "init"
           /\ \/ engine.isInitialized
              \/ engine.initPending > 0 /\ hooks.isInitialized)
          => (/\ Registrations' = Registrations
              /\ hooks'.registeredHooks = hooks.registeredHooks
              /\ loop'.intervals = loop.intervals
              /\ loop'.timeouts = loop.timeouts
              /\ ~ghost'.raised)]_vars
    /\ [][(ghost'.lastOp = "initDone" /\ engine.isInitialized) => ~ghost'.raised]_vars

\* C20 witness: two init(RED) calls wait for the server, the hooks are
\* registered once and each interval runs once
C20_Witness ==
    /\ ghost.lastOp = "init"
    /\ engine.initPending = 2
    /\ hooks.isInitialized
    /\ Registrations = <<1, 1, 1, 1>>
    /\ \A k \in DOMAIN loop.intervals : loop.intervals[k] = 1

(* C21: the inventory derived from the counter keys has one flow for every
   distinct flow id of a key and, for every node type, as many nodes as there
   are distinct node ids with that type, so that the counts of the types add
   up to totalNodes; a node with traffic in both directions or with several
   keys counts once. *)
C21_InventoryCountsDistinctIds ==
    LET flows == CalculateRealFlowMetrics(World)
        nodes == CalculateRealNodeMetrics(World)
        ids(type) == {c[2] : c \in {c \in DOMAIN ghost.calls : c[3] = type}}
    IN /\ flows.totalFlows = Cardinality({c[4] : c \in DOMAIN ghost.calls})
       /\ DOMAIN nodes.nodeTypes = {c[3] : c \in DOMAIN ghost.calls}
       /\ \A type \in DOMAIN nodes.nodeTypes :
             nodes.nodeTypes[type] = Cardinality(ids(type))
       /\ nodes.totalNodes = Cardinality({c[2] : c \in DOMAIN ghost.calls})
       /\ SumOver(nodes.nodeTypes, DOMAIN nodes.nodeTypes) = nodes.totalNodes

(* C22: whenever the server can be asked for an export, the exported values
   of flows total / active and nodes total / active are the ones derived from
   the counter keys of that moment. *)
C22_ExportEqualsDerived ==
    engine.isServerRunning =>
        LET exported == GetMetrics(World)
            flows == CalculateRealFlowMetrics(World)
            nodes == CalculateRealNodeMetrics(World)
        IN /\ exported.nodered_flows_total = flows.totalFlows
           /\ exported.nodered_flows_active = flows.activeFlows
           /\ exported.nodered_nodes_total = nodes.nodeTypes
           /\ exported.nodered_nodes_active = nodes.activeNodeTypes

(* C23: from an empty queue with no flush timeout scheduled, fewer than
   batchSize enqueues and nothing else lead to exactly one flush: no enqueue
   flushes, every enqueue leaves exactly one timeout scheduled, and when that
   timeout fires the flush applies all the queued records, in order, and
   leaves the queue empty with no timeout scheduled, so that no second flush
   can follow. *)
CleanIdle ==
    /\ hooks.messageBatch = <<>>
    /\ hooks.batchTimer = 0
    /\ loop.timeouts = <<>>

\* records wait below the batch size for the one timeout the first armed
Waiting ==
    /\ hooks.messageBatch # <<>>
    /\ Len(hooks.messageBatch) < hooks.options.batchSize.n
    /\ hooks.batchTimer # 0
    /\ loop.timeouts = <<hooks.batchTimer>>

C23_SmallBatchFlushesOnceOnTimer ==
    /\ [][(/\ CleanIdle \/ Waiting
           /\ ghost'.lastOp \in {"onSend", "onReceive"}
           /\ ghost'.enqueued = ghost.enqueued + 1
           /\ Len(hooks.messageBatch) + 1 < hooks.options.batchSize.n)
          => (/\ ghost'.flushes = ghost.flushes
              /\ ghost'.applied = ghost.applied
              /\ Waiting'
              /\ Len(hooks'.messageBatch) = Len(hooks.messageBatch) + 1)]_vars
    /\ [][(Waiting /\ ghost'.lastOp = "flushTimer")
          => (/\ ghost'.flushes = ghost.flushes + 1
              /\ ghost'.applied =
                    ghost.applied \o [i \in 1..Len(hooks.messageBatch) |->
                                         hooks.messageBatch[i].seq]
              /\ CleanIdle')]_vars

C23_Witness ==
    /\ ghost.lastOp = "flushTimer"
    /\ CleanIdle
    /\ ghost.flushes = 1
    /\ ghost.enqueued \in 2..(hooks.options.batchSize.n - 1)
    /\ Len(ghost.applied) = ghost.enqueued

(* C24: for fields without ':' the counter key splits back into the three
   fields it was made of, distinct triples have distinct keys, and the labels
   of the rate gauges and the flows of the inventory are those the messages
   were counted under. *)
CountedTriples(type) ==
    {<<c[2], c[3], c[4]>> : c \in {c \in DOMAIN ghost.calls : c[1] \in type}}

C24_KeyRoundTrips ==
    LET triples == CountedTriples({"send", "receive"})
    IN /\ \A t \in triples : Labels(CounterKey(t[1], t[2], t[3])) = t
       /\ \A t, u \in triples :
             t # u => CounterKey(t[1], t[2], t[3]) # CounterKey(u[1], u[2], u[3])
       /\ DOMAIN collector.incomingMessageCounters =
             {CounterKey(t[1], t[2], t[3]) : t \in CountedTriples({"receive"})}
       /\ DOMAIN collector.outgoingMessageCounters =
             {CounterKey(t[1], t[2], t[3]) : t \in CountedTriples({"send"})}
       /\ CalculateRealFlowMetrics(World).flowIds = {t[3] : t \in triples} \ {""}
       /\ DOMAIN CalculateRealNodeMetrics(World).nodeTypes = {t[2] : t \in triples} \ {""}
       /\ DOMAIN collector.messagesIncomingPerSecond \subseteq CountedTriples({"receive"})
       /\ DOMAIN collector.messagesOutgoingPerSecond \subseteq CountedTriples({"send"})
       /\ ghost.lastOp = "rateTick" =>
             /\ DOMAIN collector.messagesIncomingPerSecond = CountedTriples({"receive"})
             /\ DOMAIN collector.messagesOutgoingPerSecond = CountedTriples({"send"})

C24_Witness ==
    /\ ghost.lastOp = "rateTick"
    /\ Cardinality(DOMAIN collector.messagesOutgoingPerSecond) = 2
    /\ \E t \in DOMAIN collector.messagesOutgoingPerSecond : t[1] = "" /\ t[3] = "a_b"

(* C25: a rate tick changes nothing but the rate gauges and the previous
   samples: the queue, the flush timeouts, the timing table and the
   cumulative counters are as before; and an enqueue or a flush after a tick
   does to the ingestion state and to the counters what it does without the
   tick. *)
Ingestion(w) ==
    [hooks |-> w.hooks, loop |-> w.loop,
     incomingMessageCounters |-> w.collector.incomingMessageCounters,
     outgoingMessageCounters |-> w.collector.outgoingMessageCounters,
     messagesIncomingTotal |-> w.collector.messagesIncomingTotal,
     messagesOutgoingTotal |-> w.collector.messagesOutgoingTotal,
     errorsTotal |-> w.collector.errorsTotal,
     nodeExecutionTime |-> w.collector.nodeExecutionTime,
     applied |-> w.ghost.applied]

C25_TickLeavesIngestionAlone ==
    /\ [][ghost'.lastOp = "rateTick"
            => (/\ Ingestion([World EXCEPT !.hooks = hooks', !.loop = loop',
                                           !.collector = collector',
                                           !.ghost = ghost'])
                     = Ingestion(World)
                /\ engine' = engine /\ now' = now)]_vars
    /\ [](LET ticked == CalculateMessagesPerSecond(World)
          IN /\ Ingestion(ProcessBatch(ticked)) = Ingestion(ProcessBatch(World))
             /\ Ingestion(AddToBatch(ticked, "n1", "inject", "f1", "send"))
                  = Ingestion(AddToBatch(World, "n1", "inject", "f1", "send")))

C25_Witness ==
    /\ ghost.lastOp = "rateTick"
    /\ hooks.messageBatch # <<>>
    /\ loop.timeouts # <<>>
    /\ collector.outgoingMessageCounters # EmptyMap
    /\ \E l \in DOMAIN collector.messagesOutgoingPerSecond :
          collector.messagesOutgoingPerSecond[l].num > 0

(* C26: an engine constructed with an invalid batch size (zero, negative,
   no number) is never a running batcher whose flush leaves the queue as it
   found it: every flush such an engine gets to make applies a record. *)
ValidBatchSize(batchSize) == batchSize.isNumber /\ batchSize.n >= 1

C26_InvalidBatchSizeFailsFast ==
    [][(/\ ~ValidBatchSize(hooks.options.batchSize)
        /\ ghost'.flushes # ghost.flushes)
       => Len(ghost'.applied) > Len(ghost.applied)]_vars

(* C28: a send or receive event for a (node, message) pair that has an
   entry in the timing table overwrites it: the table keeps its size and the
   entry holds the time of this event; the completion that follows records
   exactly one duration, measured from the latest begin, and removes the
   entry. *)
Observations(c, labels) == IF labels \in DOMAIN c THEN c[labels] ELSE <<>>

C28_LastBeginWins ==
    /\ [][(/\ ghost'.lastOp \in {"onSend", "onReceive"}
           /\ HasEntry(hooks.messageStartTimes, TimingKey("n1", "m1")))
          => (/\ Len(hooks'.messageStartTimes) = Len(hooks.messageStartTimes)
              /\ GetStart(hooks'.messageStartTimes, TimingKey("n1", "m1")) = now)]_vars
    /\ [][(/\ ghost'.lastOp = "onComplete"
           /\ HasEntry(hooks.messageStartTimes, TimingKey("n1", "m1")))
          => (/\ Observations(collector'.nodeExecutionTime, <<"n1", "inject", "f1">>)
                   = Append(Observations(collector.nodeExecutionTime,
                                         <<"n1", "inject", "f1">>),
                            Seconds(now - ghost.begun[<<"n1", "m1">>]))
              /\ ~HasEntry(hooks'.messageStartTimes, TimingKey("n1", "m1")))]_vars

\* a completion after two begins, the second later than the first
C28_Witness ==
    /\ ghost.lastOp = "onComplete"
    /\ ghost.lastComplete.found
    /\ ghost.completes = 1
    /\ ghost.rebegun = 1
    /\ ghost.lastComplete.t > ghost.lastComplete.begunAt
    /\ Observations(collector.nodeExecutionTime, <<"n1", "inject", "f1">>)
          = <<Seconds(ghost.lastComplete.t - ghost.lastComplete.begunAt)>>

(* C29: without message ids a completion never matches a begin of its node:
   the begins are stored under generated ids, the completion looks up
   'unknown', finds nothing, records no duration and leaves the table as it
   is; an entry leaves the table only by a sweep or by 'flows:stopped'. *)
KeysOf(table) == {table[i].key : i \in 1..Len(table)}

C29_NoIdNeverMatches ==
    /\ [](KeysOf(hooks.messageStartTimes)
            \subseteq {TimingKey("n1", g) : g \in GeneratedIds})
    /\ [][ghost'.lastOp = "onComplete"
            => (/\ ghost'.lastComplete.messageId = "unknown"
                /\ ~ghost'.lastComplete.found
                /\ collector'.nodeExecutionTime = collector.nodeExecutionTime
                /\ hooks'.messageStartTimes = hooks.messageStartTimes)]_vars
    /\ [][ghost'.lastOp \notin {"cleanup", "flowsStopped"}
            => KeysOf(hooks.messageStartTimes)
                 \subseteq KeysOf(hooks'.messageStartTimes)]_vars

\* a completion for the node while a begin of it waits in the table
C29_Witness ==
    /\ ghost.lastOp = "onComplete"
    /\ ghost.lastComplete.nodeId = "n1"
    /\ HasEntry(hooks.messageStartTimes, TimingKey("n1", "msg_1_a"))
    /\ <<"n1", "msg_1_a">> \in DOMAIN ghost.begun
    /\ collector.nodeExecutionTime = EmptyMap

(* C30: with a batch size of at least 1, after every return of addToBatch
   and processBatch the queue holds fewer than batchSize records; no flush
   applies more than batchSize records; and the flush of stop() applies
   every record of the queue, so that stop() discards none. *)
C30_QueueBelowBatchSize ==
    /\ [](Len(hooks.messageBatch) < hooks.options.batchSize.n)
    /\ [][ghost'.flushes = ghost.flushes + 1
            => Len(ghost'.applied) - Len(ghost.applied) <= hooks.options.batchSize.n]_vars
    /\ [][ghost'.lastOp = "stop"
            => (/\ ghost'.applied =
                      ghost.applied \o [i \in 1..Len(hooks.messageBatch) |->
                                           hooks.messageBatch[i].seq]
                /\ ghost'.dropped = ghost.dropped
                /\ hooks'.messageBatch = <<>>)]_vars

C30_Witness ==
    /\ ghost.lastOp = "stop"
    /\ hooks.options.batchSize.n = MaxBatchSize
    /\ Len(ghost.stoppedWith) = MaxBatchSize - 1
    /\ Len(ghost.applied) = MaxBatchSize - 1
    /\ ghost.dropped = {}

(* C31: for every key, the outgoing total plus the 'send' records of the key
   that wait in the queue is the number of times handleSendEvent enqueued
   for the key, and likewise for the incoming total and 'receive'; no record
   is applied twice and none is discarded, whatever the order of enqueues,
   synchronous flushes and flush timeouts (those that batchTimer no longer
   refers to included). *)
PendingFor(type, key) ==
    Cardinality({i \in 1..Len(hooks.messageBatch) :
                    /\ hooks.messageBatch[i].type = type
                    /\ CounterKey(hooks.messageBatch[i].nodeId,
                                  hooks.messageBatch[i].nodeType,
                                  hooks.messageBatch[i].flowId) = key})

HandledFor(type, key) ==
    SumOver(ghost.handled,
            {c \in DOMAIN ghost.handled :
                c[1] = type /\ CounterKey(c[2], c[3], c[4]) = key})

C31_Conservation ==
    /\ \A k \in SeenKeys \cup {CounterKey(c[2], c[3], c[4]) : c \in DOMAIN ghost.handled} :
          /\ OutgoingTotal(k) + PendingFor("send", k) = HandledFor("send", k)
          /\ IncomingTotal(k) + PendingFor("receive", k) = HandledFor("receive", k)
    /\ \A i, j \in 1..Len(ghost.applied) : i # j => ghost.applied[i] # ghost.applied[j]
    /\ ghost.dropped = {}

\* the timeout a synchronous flush left scheduled has fired and applied the
\* record enqueued after that flush, ahead of the timeout armed for it
C31_Witness ==
    /\ ghost.lastOp = "flushTimer"
    /\ ghost.flushes = 2
    /\ hooks.batchTimer = 0
    /\ loop.timeouts # <<>>
    /\ Len(ghost.applied) = BatchSize + 1
    /\ \E k \in SeenKeys : OutgoingTotal(k) >= 1 /\ IncomingTotal(k) >= 1

(* C32: after any sequence of init and stop every hook of the host has at
   most one handler of the engine, and a send (receive, completion) event is
   handled once: it enqueues one record (completes once). *)
C32_OneHandlerPerEvent ==
    /\ [](loop.onSend <= 1 /\ loop.onReceive <= 1 /\ loop.onComplete <= 1)
    /\ [][ghost'.lastOp \in {"onSend", "onReceive"}
            => ghost'.enqueued = ghost.enqueued + 1]_vars
    /\ [][ghost'.lastOp = "onComplete"
            => ghost'.completes = ghost.completes + 1]_vars

(* C33: whenever the hooks are initialised the cleanup interval is
   scheduled, after a stop followed by an init as well. *)
C33_CleanupTimerWhileInitialized ==
    hooks.isInitialized => (hooks.cleanupTimer /\ loop.intervals["cleanup"] >= 1)

(* C34: once stop() has returned, an event of the host changes nothing in
   the engine: queue, flush timeouts, timing table and counters stay as they
   are. *)
C34_StoppedIsQuiescent ==
    [][(/\ ~hooks.isInitialized
        /\ ~engine.isInitialized
        /\ ~engine.stopPending
        /\ engine.initPending = 0
        /\ ghost'.lastOp \in {"onSend", "onReceive", "onComplete"})
       => (hooks' = hooks /\ collector' = collector /\ loop' = loop)]_vars

(* C35: for every key and direction, 5 times the sum of the rates written
   for the key is the cumulative counter the latest tick saw (its stored
   sample), and that sample never exceeds the cumulative counter. *)
LastSample(type, key) ==
    IF type = "receive"
      THEN GetOrZero(collector.lastIncomingMessageCounts, key)
      ELSE GetOrZero(collector.lastOutgoingMessageCounts, key)

C35_RatesAddUp ==
    /\ \A p \in DOMAIN ghost.rateSum :
          5 * ghost.rateSum[p] = RateDivisor * LastSample(p[1], p[2])
    /\ \A k \in SeenKeys :
          /\ LastSample("receive", k) <= IncomingTotal(k)
          /\ LastSample("send", k) <= OutgoingTotal(k)
    /\ (DOMAIN collector.lastIncomingMessageCounts)
          \cup (DOMAIN collector.lastOutgoingMessageCounts)
          \subseteq {p[2] : p \in DOMAIN ghost.rateSum}

\* a second tick has written a rate above zero for a key that had one
C35_Witness ==
    /\ ghost.lastOp = "rateTick"
    /\ \E k \in DOMAIN collector.outgoingMessageCounters :
          /\ collector.messagesOutgoingPerSecond[Labels(k)].num >= 1
          /\ ghost.rateSum[<<"send", k>>]
                > collector.messagesOutgoingPerSecond[Labels(k)].num
          /\ LastSample("send", k) = OutgoingTotal(k)

\* C36: in the single-counter variant, once the batch is flushed the messages
\* total of a key counts each send event of the key once (and at most the
\* receive events besides), and a completion event adds nothing to it
C36_SendCountedOnce ==
    \A k \in DOMAIN collector.messagesTotal :
        Len(hooks.messageBatch) = 0 =>
            /\ GetOrZero(collector.messagesTotal, k)
                  >= GetOrZero(ghost.handled, <<"send">> \o k)
            /\ GetOrZero(collector.messagesTotal, k)
                  <= GetOrZero(ghost.handled, <<"send">> \o k)
                       + GetOrZero(ghost.handled, <<"receive">> \o k)

\* an instance of the node module that is initialised and not being stopped
Live(e) == e.isInitialized /\ ~e.stopPending

LiveInstances == {i \in DOMAIN loop.instances : Live(loop.instances[i])}

\* C37: at most one engine instance is live in the host process, and a live
\* instance is the one globalMetrics refers to (so that runtime-stopped
\* stops it and a node creation finds it)
C37_AtMostOneLive ==
    /\ Cardinality(LiveInstances) <= 1
    /\ \A i \in LiveInstances : loop.globalMetrics = i

\* C38: recordCustomMetric never raises to its caller, whether the engine is
\* initialised or not
C38_CustomMetricNeverRaises ==
    ghost.lastOp = "recordCustomMetric" => ~ghost.raised

\* C39: the timing key is injective on the pairs the engine sees: every
\* begun (nodeId, messageId) pair has a table entry of its own, and a
\* completion that finds a start timestamp finds the one of its own pair
C39_TimingKeyInjective ==
    /\ Len(hooks.messageStartTimes) = Cardinality(DOMAIN ghost.begun)
    /\ (ghost.lastOp = "onComplete" /\ ghost.lastComplete.found)
          => /\ ghost.lastComplete.begun
             /\ ghost.lastComplete.begunAt <= ghost.lastComplete.t

====
